---- MODULE Spec2Model ----
(***************************************************************************)
(* A model of maheessh/talk2yt: the three variants of the Flask backend    *)
(* (api/wsgi_app.py, backend/wsgi_app.py, TalkToYT-backend/app.py).        *)
(*                                                                         *)
(* Python strings are modelled as sequences of one-character strings, so   *)
(* that slicing, searching, stripping and splitting are computed, not      *)
(* assumed.  Python's None is the model value None.                        *)
(***************************************************************************)
EXTENDS Integers, Sequences, FiniteSets, TLC

VARIABLES
    variant,          \* which of the three source files serves the request
    \* ---- get_transcript_chunks ----
    transcript_text,  \* its argument transcript_text
    max_chars,        \* its argument max_chars
    overlap_chars,    \* its argument overlap_chars
    chunks,           \* its local list chunks
    pos,              \* its local pos / current_pos
    cpc,              \* where the call stands: "start", "loop", "done"
    \* ---- extract_youtube_video_id and extract_video_info ----
    via,              \* "endpoint": a POST to extract-video-info; "call": the function alone
    video_url,        \* the input: [kind |-> "none" | "nonstr" | "str", s |-> its characters]
    video_id,         \* what extract_youtube_video_id returned
    structured,       \* how the structured URL step ended: "", "id", "noid", "caught", "escaped"
    fallback_ran,     \* whether the regex fallback was evaluated
    provider_args,    \* the ids handed to the metadata and transcript providers, in order
    status,           \* the HTTP status of the response (0: none yet)
    xpc,              \* where the request stands
    metadata,         \* [title, description] as get_video_metadata_from_webpage returned them
    fetched,          \* how YouTubeTranscriptApi.get_transcript ended ("": not called)
    info_body,        \* the keys of the JSON body of the extract-video-info response
    info_error,       \* the value of its 'error' key (<<>>: none)
    \* ---- the JSON body of a POST to extract-topics or chat-with-video ----
    user_query,       \* data.get('user_query'): None or a string
    video_transcript, \* data.get('video_transcript'): None or a string
    video_transcript_list, \* data.get('video_transcript_list'): [kind, items]
    reply,            \* the response: [status, field, value] (status 0: none yet)
    \* ---- a helper function called on its own ----
    fn,               \* which helper is called ("": none)
    fn_arg,           \* its argument
    fn_ret,           \* what it returned
    fpc,              \* "call" before it runs, "done" after it returned
    \* ---- the process and its request-handling workers ----
    model,            \* the module-level handle of the generation client
    requests,         \* the locals of the handler each worker is running
    \* ---- the generation service ----
    gen_calls,        \* the content window of every prompt sent, in the order sent
    gen_results,      \* what each call produced, in the same order
    \* ---- extract_topics ----
    topics_raw,       \* the text taken from the model's response
    topics_list,      \* the parsed list
    tpc,              \* where the request stands
    \* ---- chat_with_video ----
    formatted_transcript, \* api: the transcript put in the prompt
    transcript_chunks,    \* the windows of the transcript
    chunk_i,              \* the index i of the for loop over the windows (0-based)
    ai_response_text,     \* the answer so far (the fallback until one is accepted)
    hpc,                  \* where the request stands
    \* ---- summarize_video (its windows are transcript_chunks, its loop index chunk_i) ----
    summaries,            \* its local list summaries
    spc                   \* where the request stands

chunkVars == <<transcript_text, max_chars, overlap_chars, chunks, pos, cpc>>

infoVars == <<metadata, fetched, info_body, info_error>>

extractVars == <<via, video_url, video_id, structured, fallback_ran,
                 provider_args, status, xpc, infoVars>>

bodyVars == <<user_query, video_transcript, video_transcript_list, reply>>

genVars == <<gen_calls, gen_results>>

topicVars == <<topics_raw, topics_list, tpc>>

chatVars == <<formatted_transcript, transcript_chunks, chunk_i, ai_response_text, hpc>>

sumVars == <<summaries, spc>>

\* Everything the generation endpoints own.
llmVars == <<bodyVars, genVars, topicVars, chatVars, sumVars>>

workerVars == <<model, requests>>

callVars == <<fn, fn_arg, fn_ret, fpc>>

vars == <<variant, chunkVars, extractVars, llmVars, workerVars, callVars>>

\* Python's None where a string may stand: no string of the model has an
\* element of more than one character.
None == <<"None">>

Variants == {"api", "backend", "TalkToYT"}

Min(a, b) == IF a <= b THEN a ELSE b

\* F at the value of a, and at the values of a and b: an operator's argument
\* is an expression, evaluated wherever the parameter is used; these bind a
\* value, so that a long string is computed once.
Let1(a, F(_)) == CHOOSE r \in {F(x) : x \in {a}} : TRUE

Let2(a, b, F(_, _)) == CHOOSE r \in {F(x, y) : x \in {a}, y \in {b}} : TRUE

SetMin(S0) == Let1(S0, LAMBDA S : CHOOSE x \in S : \A y \in S : x <= y)

SetMax(S0) == Let1(S0, LAMBDA S : CHOOSE x \in S : \A y \in S : x >= y)

(***************************************************************************)
(* Python's str operations, on sequences of characters.                    *)
(***************************************************************************)
\* s[a:b] for 0 <= a, 0 <= b (indices past the end are clipped).
Slice(s0, a, b) ==
    Let1(s0, LAMBDA s : SubSeq(s, Min(a, Len(s)) + 1, Min(b, Len(s))))

\* s[n:]
Drop(s0, n) == Let1(s0, LAMBDA s : SubSeq(s, n + 1, Len(s)))

\* The characters str.strip() removes (those the inputs of the model use).
Whitespace == {" ", "\t", "\n", "\r"}

\* s.strip(cs) for a set of characters cs
StripSet(s0, cs) ==
    Let1(s0, LAMBDA s :
    Let1({i \in 1..Len(s) : s[i] \notin cs}, LAMBDA keep :
        IF keep = {} THEN <<>> ELSE SubSeq(s, SetMin(keep), SetMax(keep))))

\* s.lstrip(cs)
LStripSet(s0, cs) ==
    Let1(s0, LAMBDA s :
    Let1({i \in 1..Len(s) : s[i] \notin cs}, LAMBDA keep :
        IF keep = {} THEN <<>> ELSE SubSeq(s, SetMin(keep), Len(s))))

\* s.strip()
Strip(s) == StripSet(s, Whitespace)

\* p occurs in s at index i (from 1)
MatchAt(s, i, p) ==
    /\ i >= 1
    /\ i + Len(p) - 1 <= Len(s)
    /\ \A j \in 1..Len(p) : s[i + j - 1] = p[j]

\* s.startswith(p)
StartsWith(s0, p0) == Let2(s0, p0, LAMBDA s, p : MatchAt(s, 1, p))

\* s.find(p) + 1: the index (from 1) of the first occurrence, 0 when none
Find(s0, p0) ==
    Let2(s0, p0, LAMBDA s, p :
    Let1({i \in 1..Len(s) : MatchAt(s, i, p)}, LAMBDA at :
        IF at = {} THEN 0 ELSE SetMin(at)))

\* s.rfind(p) + 1
RFind(s0, p0) ==
    Let2(s0, p0, LAMBDA s, p :
    Let1({i \in 1..Len(s) : MatchAt(s, i, p)}, LAMBDA at :
        IF at = {} THEN 0 ELSE SetMax(at)))

\* p in s
Contains(s, p) == Find(s, p) # 0

\* s.split(c)[0] and s.partition(c)[0] for a character c
Before(s0, c) ==
    Let1(s0, LAMBDA s :
    Let1(Find(s, <<c>>), LAMBDA i :
        IF i = 0 THEN s ELSE SubSeq(s, 1, i - 1)))

\* s.replace(p, r): the occurrences of p, left to right, not overlapping
RECURSIVE ReplaceFrom(_, _, _, _)
ReplaceFrom(s, i0, p, r) ==
    Let1(i0, LAMBDA i :
        IF i > Len(s) THEN <<>>
        ELSE IF MatchAt(s, i, p) THEN r \o ReplaceFrom(s, i + Len(p), p, r)
        ELSE <<s[i]>> \o ReplaceFrom(s, i + 1, p, r))

Replace(s0, p0, r0) ==
    Let1(s0, LAMBDA s : Let2(p0, r0, LAMBDA p, r :
        IF p = <<>> THEN s ELSE ReplaceFrom(s, 1, p, r)))

\* s.split(c) for a character c: the pieces between the places of c
Split(s0, c) ==
    Let1(s0, LAMBDA s :
    Let1(<<0>> \o SelectSeq([i \in 1..Len(s) |-> IF s[i] = c THEN i ELSE 0],
                           LAMBDA i : i # 0) \o <<Len(s) + 1>>, LAMBDA cut :
        [k \in 1..(Len(cut) - 1) |-> SubSeq(s, cut[k] + 1, cut[k + 1] - 1)]))

UpperLetters ==
    <<"A", "B", "C", "D", "E", "F", "G", "H", "I", "J", "K", "L", "M", "N",
      "O", "P", "Q", "R", "S", "T", "U", "V", "W", "X", "Y", "Z">>

LowerLetters ==
    <<"a", "b", "c", "d", "e", "f", "g", "h", "i", "j", "k", "l", "m", "n",
      "o", "p", "q", "r", "s", "t", "u", "v", "w", "x", "y", "z">>

Digits ==
    <<"0", "1", "2", "3", "4", "5", "6", "7", "8", "9">>

Str_http ==
    <<"h", "t", "t", "p", ":", "/", "/">>

Str_https ==
    <<"h", "t", "t", "p", "s", ":", "/", "/">>

Str_www ==
    <<"w", "w", "w", ".">>

Str_youtube_com ==
    <<"y", "o", "u", "t", "u", "b", "e", ".", "c", "o", "m">>

Str_m_youtube_com ==
    <<"m", ".", "y", "o", "u", "t", "u", "b", "e", ".", "c", "o", "m">>

Str_music_youtube_com ==
    <<"m", "u", "s", "i", "c", ".", "y", "o", "u", "t", "u", "b", "e", ".",
      "c", "o", "m">>

Str_youtu_be ==
    <<"y", "o", "u", "t", "u", ".", "b", "e">>

Str_watch ==
    <<"/", "w", "a", "t", "c", "h">>

Str_embed ==
    <<"/", "e", "m", "b", "e", "d", "/">>

Str_v ==
    <<"/", "v", "/">>

Str_shorts ==
    <<"/", "s", "h", "o", "r", "t", "s", "/">>

\* c.lower() for an ASCII character
LowerChar(c) ==
    IF \E i \in 1..Len(UpperLetters) : UpperLetters[i] = c
    THEN LowerLetters[CHOOSE i \in 1..Len(UpperLetters) : UpperLetters[i] = c]
    ELSE c

\* s.lower()
Lower(s0) == Let1(s0, LAMBDA s : [i \in 1..Len(s) |-> LowerChar(s[i])])

Range(s) == {s[i] : i \in 1..Len(s)}

\* The class written without its "-": [a-zA-Z0-9_]
IdCharsNoDash == Range(UpperLetters) \cup Range(LowerLetters) \cup Range(Digits) \cup {"_"}

\* The character class [a-zA-Z0-9_-]
IdChars == Range(UpperLetters) \cup Range(LowerLetters) \cup Range(Digits) \cup {"_", "-"}

\* The 11 of {11} in the identifier patterns
IdLen == 11

(***************************************************************************)
(* The generation endpoints before any request.                            *)
(***************************************************************************)
\* No metadata yet.
NoMetadata == [title |-> "", description |-> ""]

\* A body without 'video_transcript_list'.
NoList == [kind |-> "none", items |-> <<>>]

NoReply == [status |-> 0, field |-> "none", value |-> <<>>]

TopicsIdle ==
    /\ topics_raw = <<>>
    /\ topics_list = <<>>
    /\ tpc = "idle"

ChatIdle ==
    /\ formatted_transcript = <<>>
    /\ transcript_chunks = <<>>
    /\ chunk_i = 0
    /\ ai_response_text = <<>>
    /\ hpc = "idle"

SummarizeIdle ==
    /\ summaries = <<>>
    /\ spc = "idle"

LlmIdle ==
    /\ user_query = None
    /\ video_transcript = None
    /\ video_transcript_list = NoList
    /\ reply = NoReply
    /\ gen_calls = <<>>
    /\ gen_results = <<>>
    /\ TopicsIdle
    /\ ChatIdle
    /\ SummarizeIdle


\* The process as the single-request models see it: the client handle is
\* set and no worker is running a handler.
WorkersIdle ==
    /\ model = "client"
    /\ requests = <<>>

\* No helper function is being called on its own.
CallIdle ==
    /\ fn = ""
    /\ fn_arg = <<>>
    /\ fn_ret = <<>>
    /\ fpc = "idle"

\* The text of an 'error' value: fixed text, or fixed text with str(e), the
\* message of the exception caught, at the place of the token "str(e)".
ErrorFixed(msg) == <<msg>>

ErrorWithException(msg) == <<msg, "str(e)">>
ExtractIdle ==
    /\ via = "call"
    /\ video_url = [kind |-> "none", s |-> <<>>]
    /\ video_id = None
    /\ structured = ""
    /\ fallback_ran = FALSE
    /\ provider_args = <<>>
    /\ status = 0
    /\ xpc = "idle"
    /\ metadata = NoMetadata
    /\ fetched = ""
    /\ info_body = {}
    /\ info_error = <<>>

(***************************************************************************)
(* Bounds of the windower's inputs.                                        *)
(***************************************************************************)
MaxLen == 8
MaxChunk == 5

\* The characters a transcript is made of; position i of a text of the
\* model holds the i-th of them, so a window's content tells its position.
TextChars == <<"a", "b", "c", "d", "e", "f", "g", "h", "i", "j", "k", "l", "m">>

TextOf(L) == [i \in 1..L |-> TextChars[((i - 1) % Len(TextChars)) + 1]]

(***************************************************************************)
(* get_transcript_chunks: the body of one iteration of its while loop      *)
(* (append the window, advance pos), and the whole function.               *)
(***************************************************************************)
\* ChunkBody with the advance taken past the overlap instead of short of it.
ChunkBodyGap(text, M, O, p, cs) ==
    LET end == Min(p + M, Len(text))
    IN  [chunks |-> Append(cs, Slice(text, p, end)),
         pos    |-> p + (M + O)]

\* ChunkBody with the advance one short: none when the overlap is M - 1.
ChunkBodyShortAdvance(text, M, O, p, cs) ==
    LET end == Min(p + M, Len(text))
    IN  [chunks |-> Append(cs, Slice(text, p, end)),
         pos    |-> p + (M - O) - 1]

ChunkBody(text, M, O, p, cs) ==
    LET end == Min(p + M, Len(text))
    IN  [chunks |-> Append(cs, Slice(text, p, end)),
         pos    |-> p + (M - O)]

RECURSIVE ChunkLoop(_, _, _, _, _)
ChunkLoop(text, M, O, p, cs) ==
    IF p < Len(text)
    THEN LET s == ChunkBody(text, M, O, p, cs)
         IN  IF s.pos >= Len(text) THEN s.chunks
             ELSE ChunkLoop(text, M, O, s.pos, s.chunks)
    ELSE cs

get_transcript_chunks(text, M, O) ==
    IF text = <<>> THEN <<>> ELSE ChunkLoop(text, M, O, 0, <<>>)

(***************************************************************************)
(* The windower, step by step.                                             *)
(***************************************************************************)
ChunksIdle ==
    /\ transcript_text = <<>>
    /\ max_chars = 1
    /\ overlap_chars = 0
    /\ chunks = <<>>
    /\ pos = 0
    /\ cpc = "idle"

InitChunks ==
    /\ variant \in Variants
    /\ WorkersIdle
    /\ CallIdle
    /\ ExtractIdle
    /\ LlmIdle
    /\ \E L \in 0..MaxLen : transcript_text = TextOf(L)
    /\ max_chars \in 1..MaxChunk
    /\ overlap_chars \in 0..(max_chars - 1)
    /\ chunks = <<>>
    /\ pos = 0
    /\ cpc = "start"

\* "if not transcript_text: return []"
ChunkEmpty ==
    /\ cpc = "start"
    /\ transcript_text = <<>>
    /\ cpc' = "done"
    /\ UNCHANGED <<variant, workerVars, callVars, llmVars, transcript_text, max_chars, overlap_chars, chunks, pos,
                   extractVars>>

\* "chunks = []; pos = 0" and entry to the loop
ChunkEnter ==
    /\ cpc = "start"
    /\ transcript_text # <<>>
    /\ chunks' = <<>>
    /\ pos' = 0
    /\ cpc' = "loop"
    /\ UNCHANGED <<variant, workerVars, callVars, llmVars, transcript_text, max_chars, overlap_chars, extractVars>>

\* One pass of "while pos < n": the body, then "if pos >= n: break".
ChunkIter ==
    /\ cpc = "loop"
    /\ IF pos < Len(transcript_text)
       THEN LET s == ChunkBody(transcript_text, max_chars, overlap_chars, pos, chunks)
            IN  /\ chunks' = s.chunks
                /\ pos' = s.pos
                /\ cpc' = IF s.pos >= Len(transcript_text) THEN "done" ELSE "loop"
       ELSE /\ cpc' = "done"
            /\ UNCHANGED <<chunks, pos>>
    /\ UNCHANGED <<variant, workerVars, callVars, llmVars, transcript_text, max_chars, overlap_chars, extractVars>>

NextChunks == ChunkEmpty \/ ChunkEnter \/ ChunkIter

SpecChunks == InitChunks /\ [][NextChunks]_vars

\* ceil(a / b) for b > 0 and any integer a
CeilDiv(a, b) == -((-a) \div b)

\* Window k (from 1) as the windower's contract places it: [WStart, WEnd).
WStart(k) == (k - 1) * (max_chars - overlap_chars)
WEnd(k) == Min(WStart(k) + max_chars, Len(transcript_text))

(***************************************************************************)
(* C1: the windows emitted so far are, in order, exactly                   *)
(* text[k*(M-O) : min(k*(M-O)+M, L)] for k = 0, 1, ...; each later window  *)
(* starts no later than its predecessor ends; and once the call has        *)
(* returned on a non-empty text every position of [0, L) lies in a window. *)
(***************************************************************************)
C1_WindowsCover ==
    /\ \A k \in 1..Len(chunks) :
           chunks[k] = Slice(transcript_text, WStart(k), WEnd(k))
    /\ \A k \in 2..Len(chunks) : WStart(k) <= WEnd(k - 1)
    /\ (cpc = "done" /\ Len(transcript_text) > 0) =>
           /\ Len(chunks) >= 1
           /\ WStart(1) = 0
           /\ \A i \in 0..(Len(transcript_text) - 1) :
                  \E k \in 1..Len(chunks) : WStart(k) <= i /\ i < WEnd(k)

\* The call has returned at least three windows that overlap.
C1_Witness ==
    /\ cpc = "done"
    /\ Len(chunks) >= 3
    /\ overlap_chars > 0

(***************************************************************************)
(* C2: the call returns ceil((L-O)/(M-O)) windows when L > 0, else none.   *)
(***************************************************************************)
C2_CountAsClaimed ==
    cpc = "done" =>
        Len(chunks) = IF Len(transcript_text) > 0
                      THEN CeilDiv(Len(transcript_text) - overlap_chars,
                                   max_chars - overlap_chars)
                      ELSE 0

\* The same count on texts longer than the overlap only (L > O), where the
\* claimed formula is at least 1: the code still returns one window more
\* whenever a window that reached the end is followed by a start before it.
CountBeyondOverlap ==
    (cpc = "done" /\ Len(transcript_text) > overlap_chars) =>
        Len(chunks) = CeilDiv(Len(transcript_text) - overlap_chars,
                              max_chars - overlap_chars)

(***************************************************************************)
(* C3: in the returned sequence every window but the last has length M,    *)
(* consecutive windows that do not involve the last overlap by exactly O,  *)
(* and no window follows one whose end reached len(text).                  *)
(***************************************************************************)
C3_OnlyLastShort ==
    cpc = "done" =>
        /\ \A k \in 1..(Len(chunks) - 1) : Len(chunks[k]) = max_chars
        /\ \A k \in 1..(Len(chunks) - 2) :
               WEnd(k) - WStart(k + 1) = overlap_chars
        /\ \A k \in 1..(Len(chunks) - 1) : WEnd(k) < Len(transcript_text)


\* The windower under the scheduling of a sequential call: a step that can
\* be taken is taken.
SpecChunksFair == SpecChunks /\ WF_vars(NextChunks)

(***************************************************************************)
(* C20: with 0 <= O < M the call terminates for every text, having emitted *)
(* at most ceil(len(text) / (M - O)) windows, and pos grows by M - O > 0   *)
(* on every pass of the loop.                                              *)
(***************************************************************************)
C20_Terminates ==
    /\ <>(cpc = "done")
    /\ [](Len(chunks) <= CeilDiv(Len(transcript_text), max_chars - overlap_chars))
    /\ [][(cpc = "loop" /\ pos < Len(transcript_text)) =>
             (pos' = pos + (max_chars - overlap_chars) /\ pos' > pos)]_vars

\* A call that returned after four passes or more, with an overlap.
C20_Witness ==
    /\ cpc = "done"
    /\ overlap_chars > 0
    /\ Len(chunks) >= 4
    /\ pos >= Len(transcript_text)
Pat_v_eq ==
    <<"v", "=">>

Pat_videos ==
    <<"/", "v", "i", "d", "e", "o", "s", "/">>

Pat_embed ==
    <<"e", "m", "b", "e", "d", "/">>

Pat_v ==
    <<"/", "v", "/">>

Pat_e ==
    <<"/", "e", "/">>

Pat_watch_v ==
    <<"w", "a", "t", "c", "h", "?", "v", "=">>

Pat_youtu_be ==
    <<"y", "o", "u", "t", "u", ".", "b", "e", "/">>

(***************************************************************************)
(* extract_youtube_video_id                                                *)
(***************************************************************************)
\* "not x" for a value that is None or a string
Falsy(x) == x = None \/ x = <<>>

\* re.fullmatch(r'[a-zA-Z0-9_-]{11}', s)
FullMatchId(s0) ==
    Let1(s0, LAMBDA s : Len(s) = IdLen /\ \A i \in 1..Len(s) : s[i] \in IdChars)

\* re.match(r'^https?://', s, re.IGNORECASE)
HasScheme(s) ==
    Let1(Lower(s), LAMBDA l : StartsWith(l, Str_http) \/ StartsWith(l, Str_https))

\* urllib.parse.urlparse(s) for an s that begins with http:// or https://
\* (in any case): the netloc, path and query it splits off, and whether it
\* raises ValueError("Invalid IPv6 URL").  Tabs and newlines inside the URL
\* are removed first; ";" parameters and non-ASCII hosts are not modelled
\* (no input of the model has them).
urlparse(s) ==
    Let1(SelectSeq(s, LAMBDA c : c \notin {"\t", "\r", "\n"}), LAMBDA url :
    Let1(Drop(url, Find(url, <<":">>) + 2), LAMBDA rest :
    Let1({i \in 1..Len(rest) : rest[i] \in {"/", "?", "#"}}, LAMBDA delims :
    Let1(IF delims = {} THEN Len(rest) + 1 ELSE SetMin(delims), LAMBDA d :
    Let2(SubSeq(rest, 1, d - 1), Before(Drop(rest, d - 1), "#"),
         LAMBDA netloc, nofrag :
    Let1(Find(nofrag, <<"?">>), LAMBDA qm :
        [raises |-> (Contains(netloc, <<"[">>) /\ ~Contains(netloc, <<"]">>))
                    \/ (Contains(netloc, <<"]">>) /\ ~Contains(netloc, <<"[">>)),
         netloc |-> netloc,
         path   |-> IF qm = 0 THEN nofrag ELSE SubSeq(nofrag, 1, qm - 1),
         query  |-> IF qm = 0 THEN <<>> ELSE Drop(nofrag, qm)]))))))

\* ParseResult.hostname, with None as ''
hostname(netloc) ==
    Let1(Drop(netloc, RFind(netloc, <<"@">>)), LAMBDA hostinfo :
    Let1(Find(hostinfo, <<"[">>), LAMBDA br :
    Let1(IF br # 0 THEN Before(Drop(hostinfo, br), "]") ELSE Before(hostinfo, ":"),
         LAMBDA h :
    Let1(Find(h, <<"%">>), LAMBDA pc :
        IF pc = 0 THEN Lower(h)
        ELSE Lower(SubSeq(h, 1, pc - 1)) \o Drop(h, pc - 1)))))

\* urllib.parse.unquote(x.replace('+', ' ')) for an x without "%"
UnquotePlus(x0) ==
    Let1(x0, LAMBDA x : [i \in 1..Len(x) |-> IF x[i] = "+" THEN " " ELSE x[i]])

\* (parse_qs(query).get('v') or [None])[0]: the first non-blank value named
\* v among the &-separated pairs, with "+" read as a space.
QueryV(query) ==
    Let1(Split(query, "&"), LAMBDA pairs :
    Let1([k \in 1..Len(pairs) |-> Find(pairs[k], <<"=">>)], LAMBDA eq :
    Let1({k \in 1..Len(pairs) :
             /\ eq[k] # 0
             /\ Len(pairs[k]) > eq[k]
             /\ UnquotePlus(SubSeq(pairs[k], 1, eq[k] - 1)) = <<"v">>}, LAMBDA good :
        IF good = {} THEN None
        ELSE Let1(SetMin(good), LAMBDA k : UnquotePlus(Drop(pairs[k], eq[k]))))))

\* path.split(prefix)[1].split('/')[0] for a path that starts with prefix:
\* what follows the prefix, up to the next "/".
PathSegmentAfter(path, prefix) == Before(Drop(path, Len(prefix)), "/")

\* The statements of the try block after urlparse, for the youtube.com
\* hosts: the value of vid.
YoutubeVid(u) ==
    Let1(IF u.path = Str_watch THEN QueryV(u.query) ELSE None, LAMBDA v1 :
    Let1(IF Falsy(v1) /\ StartsWith(u.path, Str_embed)
         THEN PathSegmentAfter(u.path, Str_embed) ELSE v1, LAMBDA v2 :
    Let1(IF Falsy(v2) /\ StartsWith(u.path, Str_v)
         THEN PathSegmentAfter(u.path, Str_v) ELSE v2, LAMBDA v3 :
        IF Falsy(v3) /\ StartsWith(u.path, Str_shorts)
        THEN PathSegmentAfter(u.path, Str_shorts) ELSE v3)))

\* The statements of the try block after urlparse: the value of vid.
StructuredVid(u0) ==
    Let1(u0, LAMBDA u :
    Let1(Replace(Lower(hostname(u.netloc)), Str_www, <<>>), LAMBDA host :
        IF host \in {Str_youtube_com, Str_m_youtube_com, Str_music_youtube_com}
        THEN YoutubeVid(u)
        ELSE IF host = Str_youtu_be
        THEN Before(LStripSet(u.path, {"/"}), "/")
        ELSE None))

\* The try block, on the stripped input s: how it ends.
TryStructured(s0) ==
    Let1(s0, LAMBDA s :
    Let1(urlparse(IF HasScheme(s) THEN s ELSE Str_https \o s), LAMBDA u :
        IF u.raises THEN [kind |-> "raise", exc |-> "ValueError", vid |-> None]
        ELSE Let1(StructuredVid(u), LAMBDA vid :
                 IF ~Falsy(vid) /\ FullMatchId(vid)
                 THEN [kind |-> "id", exc |-> "", vid |-> vid]
                 ELSE [kind |-> "noid", exc |-> "", vid |-> None])))

\* An except clause that names KeyError instead of Exception.
ExceptKeyErrorOnly(exc) == exc = "KeyError"

\* "except Exception: pass": every exception the try block raises is caught.
ExceptCatches(exc) == exc \in {"ValueError", "KeyError", "IndexError", "TypeError", "AttributeError"}

\* "." of a pattern: any character but a newline
Dot == "<dot>"

\* The pattern p (characters and Dot) matches s at index i
PatMatchAt(s, i, p) ==
    /\ i >= 1
    /\ i + Len(p) - 1 <= Len(s)
    /\ \A j \in 1..Len(p) :
          IF p[j] = Dot THEN s[i + j - 1] # "\n" ELSE s[i + j - 1] = p[j]

\* The alternatives of the first fallback regex, in order.  The api variant
\* escapes the dot of youtu.be; the other two do not.
FallbackPrefixes(v) ==
    <<Pat_v_eq, Pat_videos, Pat_embed,
      IF v = "api" THEN Pat_youtu_be
      ELSE [j \in 1..Len(Pat_youtu_be) |-> IF Pat_youtu_be[j] = "." THEN Dot ELSE Pat_youtu_be[j]],
      Pat_v, Pat_e, Pat_watch_v, Pat_v_eq>>

\* [a-zA-Z0-9_-]{11} with any character allowed (".{11}").
IdRunAtAnyChar(s, i) == i >= 1 /\ i + IdLen - 1 <= Len(s)

\* [a-zA-Z0-9_-]{11} matches s at index i
IdRunAt(s, i) ==
    /\ i >= 1
    /\ i + IdLen - 1 <= Len(s)
    /\ \A j \in 0..(IdLen - 1) : s[i + j] \in IdChars

\* re.search of the first fallback regex: group 1 of the leftmost match (at
\* that place, of the first alternative that matches), or None.
PrefixedIdSearch(v, s0) ==
    Let2(s0, FallbackPrefixes(v), LAMBDA s, P :
    Let1({h \in (1..Len(s)) \X (1..Len(P)) :
             PatMatchAt(s, h[1], P[h[2]]) /\ IdRunAt(s, h[1] + Len(P[h[2]]))},
         LAMBDA hits :
        IF hits = {} THEN None
        ELSE Let1(SetMin({h[1] : h \in hits}), LAMBDA i :
             Let1(SetMin({h[2] : h \in {g \in hits : g[1] = i}}), LAMBDA k :
                 SubSeq(s, i + Len(P[k]), i + Len(P[k]) + IdLen - 1)))))

\* A regex list without its second, bare-id pattern.
NoTrailingIdSearch(s) == None

\* re.search(r"([a-zA-Z0-9_-]{11})$", s): "$" is the end of the string, or
\* the place before a newline that ends it.
TrailingIdSearch(s0) ==
    Let1(s0, LAMBDA s :
    Let1({i \in 1..Len(s) :
             /\ IdRunAt(s, i)
             /\ \/ i + IdLen = Len(s) + 1
                \/ (i + IdLen = Len(s) /\ s[Len(s)] = "\n")}, LAMBDA hits :
        IF hits = {} THEN None
        ELSE Let1(SetMin(hits), LAMBDA i : SubSeq(s, i, i + IdLen - 1))))

\* The loop over the two fallback regexes, on the input as given.
RegexFallback(v, url) ==
    Let1(PrefixedIdSearch(v, url), LAMBDA m1 :
        IF m1 # None THEN m1 ELSE TrailingIdSearch(url))

\* What a call ends with when an exception leaves it.
Raised == <<"raised">>

\* extract_youtube_video_id as a function of its argument, in variant v.
extract_youtube_video_id(v, url) ==
    IF url.kind # "str" THEN None
    ELSE IF v = "api"
    THEN Let1(Strip(url.s), LAMBDA s :
             IF FullMatchId(s) THEN s
             ELSE Let1(TryStructured(s), LAMBDA r :
                      IF r.kind = "id" THEN r.vid
                      ELSE IF r.kind = "raise" /\ ~ExceptCatches(r.exc) THEN Raised
                      ELSE RegexFallback(v, url.s)))
    ELSE RegexFallback(v, url.s)

Url_bare ==
    <<>>

Url_watch ==
    <<"h", "t", "t", "p", "s", ":", "/", "/", "w", "w", "w", ".", "y", "o",
      "u", "t", "u", "b", "e", ".", "c", "o", "m", "/", "w", "a", "t", "c",
      "h", "?", "v", "=">>

Url_youtu_be ==
    <<"h", "t", "t", "p", "s", ":", "/", "/", "y", "o", "u", "t", "u", ".",
      "b", "e", "/">>

Url_shorts ==
    <<"h", "t", "t", "p", "s", ":", "/", "/", "w", "w", "w", ".", "y", "o",
      "u", "t", "u", "b", "e", ".", "c", "o", "m", "/", "s", "h", "o", "r",
      "t", "s", "/">>

Url_embed_noscheme ==
    <<"y", "o", "u", "t", "u", "b", "e", ".", "c", "o", "m", "/", "e", "m",
      "b", "e", "d", "/">>

Url_v_upper ==
    <<"H", "T", "T", "P", ":", "/", "/", "M", ".", "Y", "o", "u", "T", "u",
      "b", "e", ".", "c", "o", "m", "/", "v", "/">>

Url_music_query ==
    <<"h", "t", "t", "p", "s", ":", "/", "/", "m", "u", "s", "i", "c", ".",
      "y", "o", "u", "t", "u", "b", "e", ".", "c", "o", "m", "/", "w", "a",
      "t", "c", "h", "?", "t", "=", "1", "&", "v", "=">>

Url_other_host ==
    <<"h", "t", "t", "p", "s", ":", "/", "/", "e", "x", "a", "m", "p", "l",
      "e", ".", "c", "o", "m", "/">>

Url_bad_bracket ==
    <<"h", "t", "t", "p", ":", "/", "/", "[", "y", "o", "u", "t", "u", "b",
      "e", ".", "c", "o", "m", "/", "w", "a", "t", "c", "h", "?", "v", "=">>

Url_youtu_be_e ==
    <<"h", "t", "t", "p", "s", ":", "/", "/", "y", "o", "u", "t", "u", ".",
      "b", "e", "/", "e", "/">>

Url_space ==
    <<" ">>

Url_port ==
    <<"h", "t", "t", "p", "s", ":", "/", "/", "u", "s", "e", "r", "@", "w",
      "w", "w", ".", "y", "o", "u", "t", "u", "b", "e", ".", "c", "o", "m",
      ":", "4", "4", "3", "/", "e", "m", "b", "e", "d", "/">>

Id_spec ==
    <<"a", "b", "c", "1", "2", "3", "4", "5", "6", "7", "8">>

Id_mixed ==
    <<"d", "Q", "w", "4", "w", "9", "W", "g", "X", "c", "Q">>

Id_marks ==
    <<"-", "_", "v", "-", "e", "_", "A", "b", "0", "-", "_">>

Id_short ==
    <<"a", "b", "c", "1", "2", "3", "4", "5", "6", "7">>

Id_long ==
    <<"a", "b", "c", "1", "2", "3", "4", "5", "6", "7", "8", "9">>

Id_badchar ==
    <<"a", "b", "c", "!", "2", "3", "4", "5", "6", "7", "8">>

Id_none ==
    <<>>

Suf_none ==
    <<>>

Suf_slash ==
    <<"/">>

Suf_amp ==
    <<"&", "t", "=", "1">>

Suf_newline ==
    <<"\n">>

Suf_space ==
    <<" ">>

Suf_query ==
    <<"?", "x", "=", "1">>

Suf_frag ==
    <<"#", "t">>

(***************************************************************************)
(* The inputs of the extractor: a URL shape, an id candidate, what follows *)
(***************************************************************************)
UrlPrefixes ==
    {Url_bare, Url_watch, Url_youtu_be, Url_shorts, Url_embed_noscheme,
     Url_v_upper, Url_music_query, Url_other_host, Url_bad_bracket,
     Url_youtu_be_e, Url_space, Url_port}

\* Ids that match [a-zA-Z0-9_-]{11}
ValidIds == {Id_spec, Id_mixed, Id_marks}

IdCandidates == ValidIds \cup {Id_short, Id_long, Id_badchar, Id_none}

UrlSuffixes ==
    {Suf_none, Suf_slash, Suf_amp, Suf_newline, Suf_space, Suf_query, Suf_frag}

InputStrings ==
    {p \o i \o x : p \in UrlPrefixes, i \in IdCandidates, x \in UrlSuffixes}

\* None, a value that is not a string (42), and the strings
VideoUrls ==
    {[kind |-> "none", s |-> <<>>], [kind |-> "nonstr", s |-> <<>>]}
    \cup {[kind |-> "str", s |-> t] : t \in InputStrings}

\* The ways YouTubeTranscriptApi.get_transcript ends
TranscriptOutcomes == {"ok", "NoTranscriptFound", "TranscriptsDisabled", "Exception"}

\* The status extract_video_info answers with for each of them
TranscriptStatus(outcome) ==
    CASE outcome = "ok" -> 200
      [] outcome = "NoTranscriptFound" -> 404
      [] outcome = "TranscriptsDisabled" -> 403
      [] OTHER -> 500

(***************************************************************************)
(* extract_video_info and extract_youtube_video_id, step by step.          *)
(***************************************************************************)
InitExtract ==
    /\ variant \in Variants
    /\ WorkersIdle
    /\ CallIdle
    /\ ChunksIdle
    /\ LlmIdle
    /\ via \in {"endpoint", "call"}
    /\ video_url \in VideoUrls
    /\ video_id = None
    /\ structured = ""
    /\ fallback_ran = FALSE
    /\ provider_args = <<>>
    /\ status = 0
    /\ xpc = IF via = "endpoint" THEN "recv" ELSE "isinstance"
    /\ metadata = NoMetadata
    /\ fetched = ""
    /\ info_body = {}
    /\ info_error = <<>>

\* "if not video_url: return ... 400"
XMissingUrl ==
    /\ xpc = "recv"
    /\ (video_url.kind = "none" \/ (video_url.kind = "str" /\ video_url.s = <<>>))
    /\ status' = 400
    /\ info_body' = {"error"}
    /\ info_error' = ErrorFixed("Video URL is required")
    /\ xpc' = "done"
    /\ UNCHANGED <<variant, workerVars, callVars, llmVars, chunkVars, metadata, fetched, via, video_url, video_id, structured,
                   fallback_ran, provider_args>>

\* "video_id = extract_youtube_video_id(video_url)": the call
XCallExtract ==
    /\ xpc = "recv"
    /\ ~(video_url.kind = "none" \/ (video_url.kind = "str" /\ video_url.s = <<>>))
    /\ xpc' = "isinstance"
    /\ UNCHANGED <<variant, workerVars, callVars, llmVars, chunkVars, infoVars, via, video_url, video_id, structured,
                   fallback_ran, provider_args, status>>

\* "if not isinstance(url, str): return None"
ExtractNonString ==
    /\ xpc = "isinstance"
    /\ video_url.kind # "str"
    /\ video_id' = None
    /\ xpc' = "extracted"
    /\ UNCHANGED <<variant, workerVars, callVars, llmVars, chunkVars, infoVars, via, video_url, structured,
                   fallback_ran, provider_args, status>>

\* api: "s = url.strip()" and the bare-id test
ExtractBare ==
    /\ xpc = "isinstance"
    /\ video_url.kind = "str"
    /\ variant = "api"
    /\ \E s \in {Strip(video_url.s)} :
           IF FullMatchId(s)
           THEN video_id' = s /\ xpc' = "extracted"
           ELSE video_id' = video_id /\ xpc' = "structured"
    /\ UNCHANGED <<variant, workerVars, callVars, llmVars, chunkVars, infoVars, via, video_url, structured,
                   fallback_ran, provider_args, status>>

\* backend, TalkToYT: nothing stands between the isinstance test and the regexes
ExtractRegexOnly ==
    /\ xpc = "isinstance"
    /\ video_url.kind = "str"
    /\ variant # "api"
    /\ xpc' = "fallback"
    /\ UNCHANGED <<variant, workerVars, callVars, llmVars, chunkVars, infoVars, via, video_url, video_id, structured,
                   fallback_ran, provider_args, status>>

\* api: the try block and its except clause
ExtractStructured ==
    /\ xpc = "structured"
    /\ \E r \in {TryStructured(Strip(video_url.s))} :
           IF r.kind = "id"
           THEN video_id' = r.vid /\ structured' = "id" /\ xpc' = "extracted"
                /\ status' = status
           ELSE IF r.kind = "raise" /\ ~ExceptCatches(r.exc)
           THEN video_id' = Raised /\ structured' = "escaped" /\ xpc' = "done"
                /\ status' = IF via = "endpoint" THEN 500 ELSE status
           ELSE video_id' = video_id /\ xpc' = "fallback" /\ status' = status
                /\ structured' = IF r.kind = "raise" THEN "caught" ELSE "noid"
    /\ UNCHANGED <<variant, workerVars, callVars, llmVars, chunkVars, infoVars, via, video_url, fallback_ran, provider_args>>

\* The regex fallback and the final "return None"
ExtractFallback ==
    /\ xpc = "fallback"
    /\ video_id' = RegexFallback(variant, video_url.s)
    /\ fallback_ran' = TRUE
    /\ xpc' = "extracted"
    /\ UNCHANGED <<variant, workerVars, callVars, llmVars, chunkVars, infoVars, via, video_url, structured,
                   provider_args, status>>

\* The function was called alone: it has returned.
ExtractReturn ==
    /\ xpc = "extracted"
    /\ via = "call"
    /\ xpc' = "done"
    /\ UNCHANGED <<variant, workerVars, callVars, llmVars, chunkVars, infoVars, via, video_url, video_id, structured,
                   fallback_ran, provider_args, status>>

\* "if not video_id: return ... 400"
XInvalidUrl ==
    /\ xpc = "extracted"
    /\ via = "endpoint"
    /\ Falsy(video_id)
    /\ status' = 400
    /\ info_body' = {"error"}
    /\ info_error' = ErrorFixed("Invalid YouTube URL")
    /\ xpc' = "done"
    /\ UNCHANGED <<variant, workerVars, callVars, llmVars, chunkVars, metadata, fetched, via, video_url, video_id, structured,
                   fallback_ran, provider_args>>

\* The ways the request of get_video_metadata_from_webpage ends: a page
\* with the og: tags, a page without them, or an exception of requests
\* (raise_for_status, a timeout).
MetadataOutcomes == {"page", "page_without_tags", "HTTPError", "Timeout"}

\* The handler of get_video_metadata_from_webpage that catches nothing.
MetadataCatchesNothing(v, exc) == FALSE

\* Whether get_video_metadata_from_webpage catches the exception exc:
\* api "except Exception", backend "except requests.exceptions.RequestException",
\* TalkToYT both; HTTPError and Timeout are RequestExceptions.
MetadataCatches(v, exc) == exc \in {"HTTPError", "Timeout"}

\* get_video_metadata_from_webpage on an outcome it returns from.
MetadataOf(v, m) ==
    CASE m = "page" -> [title |-> "og:title", description |-> "og:description"]
      [] m = "page_without_tags" ->
            IF v = "TalkToYT"
            THEN [title |-> "Unknown Title (Scraped)",
                  description |-> "No Description Available (Scraped)"]
            ELSE [title |-> "Unknown Title", description |-> "No Description Available"]
      [] OTHER -> [title |-> "Error fetching title",
                   description |-> "Error fetching description"]

\* "title, description = get_video_metadata_from_webpage(video_id)"; an
\* exception the function does not catch leaves the view (500).
XMetadata ==
    /\ xpc = "extracted"
    /\ via = "endpoint"
    /\ ~Falsy(video_id)
    /\ provider_args' = Append(provider_args, video_id)
    /\ \E m \in MetadataOutcomes :
        IF m \in {"page", "page_without_tags"} \/ MetadataCatches(variant, m)
        THEN /\ metadata' = MetadataOf(variant, m)
             /\ xpc' = "transcript"
             /\ UNCHANGED <<status, info_body, info_error>>
        ELSE /\ status' = 500
             /\ info_body' = {"error"}
             /\ info_error' = <<>>
             /\ xpc' = "done"
             /\ UNCHANGED metadata
    /\ UNCHANGED <<variant, workerVars, callVars, llmVars, chunkVars, via, video_url, video_id, structured,
                   fallback_ran, fetched>>

\* The keys of the 200 reply.
InfoKeys(v) ==
    {"videoId", "title", "description", "transcript"}
        \cup (IF v = "api" THEN {"transcript_list"} ELSE {})

\* The 'error' value of extract_video_info for each way get_transcript ends.
InfoError(v, outcome) ==
    CASE outcome = "ok" -> <<>>
      [] outcome = "NoTranscriptFound" ->
            ErrorFixed(IF v = "TalkToYT"
                       THEN "No transcript found for this video. Please try another video."
                       ELSE "A transcript could not be found for this video.")
      [] outcome = "TranscriptsDisabled" ->
            ErrorFixed(IF v = "TalkToYT"
                       THEN "Transcripts are disabled for this video. Cannot process."
                       ELSE "Transcripts are disabled for this video.")
      [] OTHER ->
            ErrorWithException(IF v = "TalkToYT"
                THEN "Failed to get transcript: An unexpected error occurred. {str(e)}"
                ELSE "An unexpected error occurred while fetching the transcript: {str(e)}")

\* "YouTubeTranscriptApi.get_transcript(video_id, ...)" and the response
XTranscript ==
    /\ xpc = "transcript"
    /\ provider_args' = Append(provider_args, video_id)
    /\ \E outcome \in TranscriptOutcomes :
        /\ fetched' = outcome
        /\ status' = TranscriptStatus(outcome)
        /\ info_body' = IF outcome = "ok" THEN InfoKeys(variant) ELSE {"error"}
        /\ info_error' = InfoError(variant, outcome)
    /\ xpc' = "done"
    /\ UNCHANGED <<variant, workerVars, callVars, llmVars, chunkVars, via, video_url, video_id, structured,
                   fallback_ran, metadata>>

NextExtract ==
    \/ XMissingUrl \/ XCallExtract
    \/ ExtractNonString \/ ExtractBare \/ ExtractRegexOnly
    \/ ExtractStructured \/ ExtractFallback \/ ExtractReturn
    \/ XInvalidUrl \/ XMetadata \/ XTranscript

SpecExtract == InitExtract /\ [][NextExtract]_vars

\* The call of extract_youtube_video_id has returned.
Extracted == xpc \in {"extracted", "transcript", "done"} /\ structured # "escaped"

\* The steps above compute the function extract_youtube_video_id.
StepsAgreeWithFunction ==
    (Extracted /\ xpc = "extracted") =>
        video_id = extract_youtube_video_id(variant, video_url)

\* A VideoReference: 11 characters of [A-Za-z0-9_-]
IsVideoReference(v) ==
    /\ Len(v) = 11
    /\ \A i \in 1..Len(v) :
          v[i] \in Range(UpperLetters) \cup Range(LowerLetters) \cup Range(Digits) \cup {"_", "-"}

(***************************************************************************)
(* C4: extract_youtube_video_id is idempotent: an id v it returns is       *)
(* returned again for the input v, and a bare 11-character id is returned  *)
(* unchanged, in all three variants.                                       *)
(***************************************************************************)
C4_Idempotent ==
    Extracted =>
        /\ video_id # None =>
              extract_youtube_video_id(variant, [kind |-> "str", s |-> video_id]) = video_id
        /\ (video_url.kind = "str" /\ IsVideoReference(video_url.s)) =>
              video_id = video_url.s

\* A regex-only variant has returned an id it took out of a longer string.
C4_Witness ==
    /\ xpc = "done"
    /\ variant = "backend"
    /\ video_id # None
    /\ video_url.s # video_id

(***************************************************************************)
(* C5: for a valid id X, the watch?v=X, youtu.be/X and shorts/X URLs and   *)
(* the bare X all yield X, in every variant.                               *)
(***************************************************************************)
C5_ShapesYieldId ==
    Extracted =>
        \A X \in ValidIds :
            (video_url.kind = "str"
             /\ video_url.s \in {Url_watch \o X, Url_youtu_be \o X, Url_shorts \o X, X})
            => video_id = X

\* The shorts URL of an id with "-" and "_" went through a regex-only variant.
C5_Witness ==
    /\ xpc = "done"
    /\ variant = "TalkToYT"
    /\ video_url.s = Url_shorts \o Id_marks
    /\ video_id = Id_marks

(***************************************************************************)
(* C6: extract_youtube_video_id never raises: no exception leaves the      *)
(* call, it returns an id or None, and when the structured URL step fails  *)
(* (no id, or urlparse raising) the regex fallback decides the result.     *)
(***************************************************************************)
C6_NeverRaises ==
    /\ structured # "escaped"
    /\ video_id # Raised
    /\ Extracted => (video_id = None \/ IsVideoReference(video_id))
    /\ (Extracted /\ structured \in {"noid", "caught"}) =>
          /\ fallback_ran
          /\ video_id = RegexFallback(variant, video_url.s)

\* urlparse raised inside the try block and the fallback still found an id.
C6_Witness ==
    /\ Extracted
    /\ structured = "caught"
    /\ fallback_ran
    /\ video_id # None

(***************************************************************************)
(* C7: every value extract_youtube_video_id returns other than None is 11  *)
(* characters of [A-Za-z0-9_-], and extract-video-info hands nothing else  *)
(* to the metadata and transcript providers.                               *)
(***************************************************************************)
C7_OnlyVideoReferences ==
    /\ (Extracted /\ video_id # None) => IsVideoReference(video_id)
    /\ \A i \in 1..Len(provider_args) :
          IsVideoReference(provider_args[i]) /\ provider_args[i] = video_id

\* Both providers were called with an id the api variant's fallback found.
C7_Witness ==
    /\ xpc = "done"
    /\ variant = "api"
    /\ fallback_ran
    /\ Len(provider_args) = 2


\* "not video_url"
UrlMissing == video_url.kind = "none" \/ (video_url.kind = "str" /\ video_url.s = <<>>)

MAX_TRANSCRIPT_LENGTH_CHARS == 3
OVERLAP_CHARS == 1
ChatTruncateAt == 4
MaxTranscript == 5

Str_bold == <<"*", "*">>

\* clean_ai_response without its final strip().
CleanWithoutStrip(text) ==
    IF text = None THEN <<>> ELSE Replace(text, Str_bold, <<>>)

\* clean_ai_response(text)
clean_ai_response(text) ==
    IF text = None THEN <<>> ELSE Strip(Replace(text, Str_bold, <<>>))

\* What a call of model.generate_content can do: return a response with a
\* text part, return a response with no candidates (empty or blocked), or
\* raise.
TextOutcome(t) == [kind |-> "text", s |-> t, exc |-> ""]

BlockedOutcome == [kind |-> "blocked", s |-> <<>>, exc |-> ""]

RaiseOutcomes == {[kind |-> "raise", s |-> <<>>, exc |-> e] : e \in {"APIError", "Exception"}}

\* The request bodies: a transcript is absent, empty, or the first L
\* characters of the alphabet.
Transcripts == {None, <<>>} \cup {TextOf(L) : L \in 1..MaxTranscript}

\* call_gemini(prompt) on an outcome of the service (api variant): the text,
\* or "" when there is none or the call raised.
call_gemini(o) == IF o.kind = "text" THEN o.s ELSE <<>>

(***************************************************************************)
(* extract_topics: the parsing of the model's text into the list of        *)
(* topics.                                                                 *)
(***************************************************************************)
\* str(n) for n >= 0
RECURSIVE Decimal(_)
Decimal(n0) ==
    Let1(n0, LAMBDA n :
        IF n < 10 THEN <<Digits[n + 1]>>
        ELSE Decimal(n \div 10) \o <<Digits[(n % 10) + 1]>>)

\* The end of the run of characters of cs that starts at index i of s: the
\* first index from i whose character is not in cs (Len(s) + 1 when none).
RunEnd(s0, i0, cs) ==
    Let2(s0, i0, LAMBDA s, i :
        SetMin({j \in i..(Len(s) + 1) : j = Len(s) + 1 \/ s[j] \notin cs}))

\* "^" under re.MULTILINE: index i is at the start of s or follows a newline.
LineStart(s, i) == i = 1 \/ s[i - 1] = "\n"

\* ^\s*[-*]\s* at index i: the index after the match, 0 when none.
BulletMatchEnd(s0, i0) ==
    Let2(s0, i0, LAMBDA s, i :
        IF ~LineStart(s, i) THEN 0
        ELSE Let1(RunEnd(s, i, Whitespace), LAMBDA j :
                 IF j <= Len(s) /\ s[j] \in {"-", "*"}
                 THEN RunEnd(s, j + 1, Whitespace) ELSE 0))

\* \d+\.\s* at index i: the index after the match, 0 when none.
NumberMatchEnd(s0, i0) ==
    Let2(s0, i0, LAMBDA s, i :
        IF i > Len(s) \/ s[i] \notin Range(Digits) THEN 0
        ELSE Let1(RunEnd(s, i, Range(Digits)), LAMBDA j :
                 IF j <= Len(s) /\ s[j] = "."
                 THEN RunEnd(s, j + 1, Whitespace) ELSE 0))

\* The alternation ^\s*[-*]\s*|\d+\.\s* at index i: the first alternative
\* that matches.
MarkerMatchEnd(s0, i0) ==
    Let2(s0, i0, LAMBDA s, i :
    Let1(BulletMatchEnd(s, i), LAMBDA b :
        IF b # 0 THEN b ELSE NumberMatchEnd(s, i)))

\* re.sub(r'^\s*[-*]\s*|\d+\.\s*', '', s, flags=re.MULTILINE) from index i:
\* the matches, left to right and not overlapping, are dropped.
RECURSIVE SubMarkersFrom(_, _)
SubMarkersFrom(s, i0) ==
    Let1(i0, LAMBDA i :
        IF i > Len(s) THEN <<>>
        ELSE Let1(MarkerMatchEnd(s, i), LAMBDA m :
                 IF m # 0 THEN SubMarkersFrom(s, m)
                 ELSE <<s[i]>> \o SubMarkersFrom(s, i + 1)))

StripListMarkers(s0) == Let1(s0, LAMBDA s : SubMarkersFrom(s, 1))

\* [t.strip() for t in cleaned.split(',') if t.strip()]
SplitTopics(cleaned) ==
    Let1(Split(cleaned, ","), LAMBDA parts :
        SelectSeq([k \in 1..Len(parts) |-> Strip(parts[k])], LAMBDA t : t # <<>>))

\* topics_list from topics_raw, in each variant.
ParseTopics(v, raw0) ==
    Let1(raw0, LAMBDA raw :
        IF v = "TalkToYT"
        THEN IF raw = <<>> THEN <<>> ELSE SplitTopics(StripListMarkers(raw))
        ELSE SplitTopics(clean_ai_response(raw)))

(***************************************************************************)
(* The model's outputs for extract_topics: a list of phrases, written      *)
(* plainly or with list markers before the items.                          *)
(***************************************************************************)
MaxTopics == 3

Phrase_Cats == <<"C", "a", "t", "s">>
Phrase_Dogs == <<"D", "o", "g", "s">>
Phrase_AI == <<"A", "I">>

Phrases == {Phrase_Cats, Phrase_Dogs, Phrase_AI}

\* The ordered lists of one to MaxTopics different phrases.
PhraseLists ==
    {ph \in UNION {[1..n -> Phrases] : n \in 1..MaxTopics} :
        \A i, j \in 1..Len(ph) : i # j => ph[i] # ph[j]}

MarkerFormats == {"numbered", "dash", "star", "numbered_lines", "dash_lines", "star_lines"}

Formats == {"plain"} \cup MarkerFormats

\* What stands before item k.
Marker(f, k) ==
    CASE f = "plain" -> <<>>
      [] f \in {"numbered", "numbered_lines"} -> Decimal(k) \o <<".", " ">>
      [] f \in {"dash", "dash_lines"} -> <<"-", " ">>
      [] f \in {"star", "star_lines"} -> <<"*", " ">>

\* What stands between two items.
Separator(f) ==
    IF f \in {"numbered_lines", "dash_lines", "star_lines"}
    THEN <<",", "\n">> ELSE <<",", " ">>

RECURSIVE RenderFrom(_, _, _)
RenderFrom(ph, f, k0) ==
    Let1(k0, LAMBDA k :
        IF k > Len(ph) THEN <<>>
        ELSE (IF k = 1 THEN <<>> ELSE Separator(f)) \o Marker(f, k) \o ph[k]
             \o RenderFrom(ph, f, k + 1))

\* The text of the list ph in format f: 'Cats, Dogs', '1. Cats, 2. Dogs',
\* '- Cats, - Dogs', '* Cats,\n* Dogs', ...
Render(ph0, f) == Let1(ph0, LAMBDA ph : RenderFrom(ph, f, 1))

TopicOutcomes ==
    {TextOutcome(Render(ph, f)) : ph \in PhraseLists, f \in Formats}
        \cup {TextOutcome(<<>>), BlockedOutcome} \cup RaiseOutcomes

\* What the handler takes from an outcome o of the service: the text
\* topics_raw, or an exception that leaves the try block.  The api variant
\* goes through call_gemini; TalkToYT reads candidates[0].content.parts[0];
\* backend reads response.text, which for a response with no candidates
\* is outside this repository: it may be empty or may raise.
TopicsRawOf(v, o) ==
    CASE v = "api" -> {[raised |-> FALSE, exc |-> "", raw |-> call_gemini(o)]}
      [] o.kind = "raise" -> {[raised |-> TRUE, exc |-> o.exc, raw |-> <<>>]}
      [] o.kind = "text" -> {[raised |-> FALSE, exc |-> "", raw |-> o.s]}
      [] v = "TalkToYT" -> {[raised |-> FALSE, exc |-> "", raw |-> <<>>]}
      [] OTHER -> {[raised |-> FALSE, exc |-> "", raw |-> <<>>],
                   [raised |-> TRUE, exc |-> "ValueError", raw |-> <<>>]}

\* The body of the 500 reply of extract_topics.
TopicsError(v, exc) ==
    CASE v = "TalkToYT" /\ exc = "APIError" ->
            ErrorWithException("Gemini API error during topic extraction: {str(e)}. Check key and quota.")
      [] v = "TalkToYT" ->
            ErrorWithException("Failed to extract topics: An unexpected error occurred. {str(e)}")
      [] OTHER -> ErrorFixed("An unexpected error occurred while extracting topics.")

InitTopics ==
    /\ variant \in Variants
    /\ WorkersIdle
    /\ CallIdle
    /\ ChunksIdle
    /\ ExtractIdle
    /\ SummarizeIdle
    /\ ChatIdle
    /\ user_query = None
    /\ video_transcript \in Transcripts
    /\ video_transcript_list = NoList
    /\ reply = NoReply
    /\ gen_calls = <<>>
    /\ gen_results = <<>>
    /\ topics_raw = <<>>
    /\ topics_list = <<>>
    /\ tpc = "recv"

\* "if not video_transcript: return ... 400"
TopicsMissing ==
    /\ tpc = "recv"
    /\ Falsy(video_transcript)
    /\ reply' = [status |-> 400, field |-> "error",
                 value |-> ErrorFixed("Video transcript is required")]
    /\ tpc' = "done"
    /\ UNCHANGED <<variant, workerVars, callVars, chunkVars, extractVars, sumVars, chatVars, genVars,
                   user_query, video_transcript, video_transcript_list,
                   topics_raw, topics_list>>

\* The single generation call, on the first MAX_TRANSCRIPT_LENGTH_CHARS
\* characters, and the reading of its text.
TopicsGenerate ==
    /\ tpc = "recv"
    /\ ~Falsy(video_transcript)
    /\ \E o \in TopicOutcomes : \E r \in TopicsRawOf(variant, o) :
        /\ gen_calls' = Append(gen_calls,
                               Slice(video_transcript, 0, MAX_TRANSCRIPT_LENGTH_CHARS))
        /\ gen_results' = Append(gen_results, o)
        /\ IF r.raised
           THEN /\ reply' = [status |-> 500, field |-> "error",
                             value |-> TopicsError(variant, r.exc)]
                /\ tpc' = "done"
                /\ UNCHANGED topics_raw
           ELSE /\ topics_raw' = r.raw
                /\ tpc' = "parse"
                /\ UNCHANGED reply
    /\ UNCHANGED <<variant, workerVars, callVars, chunkVars, extractVars, sumVars, chatVars,
                   user_query, video_transcript, video_transcript_list,
                   topics_list>>

\* The parsing, and the 200 reply.
TopicsParse ==
    /\ tpc = "parse"
    /\ \E parsed \in {ParseTopics(variant, topics_raw)} :
        /\ topics_list' = parsed
        /\ reply' = [status |-> 200, field |-> "topics", value |-> parsed]
    /\ tpc' = "done"
    /\ UNCHANGED <<variant, workerVars, callVars, chunkVars, extractVars, sumVars, chatVars, genVars,
                   user_query, video_transcript, video_transcript_list,
                   topics_raw>>

NextTopics == TopicsMissing \/ TopicsGenerate \/ TopicsParse

SpecTopics == InitTopics /\ [][NextTopics]_vars

\* A reply that carries a parsed list.
TopicsReplied == tpc = "done" /\ reply.status = 200

\* The plain comma-separated text of a list parses to that list, in every
\* variant.
PlainParses ==
    TopicsReplied =>
        \A ph \in PhraseLists : topics_raw = Render(ph, "plain") => topics_list = ph

\* The TalkToYT variant drops 'N. ' numbering wherever it stands, and
\* bullets at the start of a line.
TalkToYTDropsSomeMarkers ==
    (TopicsReplied /\ variant = "TalkToYT") =>
        \A ph \in PhraseLists :
            \A f \in {"numbered", "numbered_lines", "dash_lines", "star_lines"} :
                topics_raw = Render(ph, f) => topics_list = ph

\* C8: in every variant, model output with 'N. ' numbering or '-'/'*'
\* bullets before the items parses to the same ordered list as the plain
\* comma-separated output of the same phrases.
C8_MarkersIgnored ==
    TopicsReplied =>
        \A ph \in PhraseLists : \A f \in MarkerFormats :
            topics_raw = Render(ph, f) =>
                topics_list = ParseTopics(variant, Render(ph, "plain"))

\* The api and backend variants keep every marker before the items.
MarkersKeptOutsideTalkToYT ==
    (TopicsReplied /\ variant # "TalkToYT") =>
        \A ph \in PhraseLists : \A f \in MarkerFormats :
            topics_raw = Render(ph, f) =>
                /\ Len(topics_list) = Len(ph)
                /\ \A k \in 1..Len(ph) : topics_list[k] = Marker(f, k) \o ph[k]

(***************************************************************************)
(* chat_with_video.                                                        *)
(***************************************************************************)
\* The fallback answers.
Fallback_sorry ==
    <<"I", "'", "m", " ", "s", "o", "r", "r", "y", ",", " ", "I", " ", "c",
      "o", "u", "l", "d", "n", "'", "t", " ", "f", "i", "n", "d", " ", "a",
      "n", " ", "a", "n", "s", "w", "e", "r", " ", "t", "o", " ", "t", "h",
      "a", "t", " ", "i", "n", " ", "t", "h", "e", " ", "v", "i", "d", "e",
      "o", " ", "c", "o", "n", "t", "e", "n", "t", ".">>

Fallback_not_available ==
    <<"T", "h", "e", " ", "i", "n", "f", "o", "r", "m", "a", "t", "i", "o",
      "n", " ", "i", "s", " ", "n", "o", "t", " ", "a", "v", "a", "i", "l",
      "a", "b", "l", "e", " ", "i", "n", " ", "t", "h", "e", " ", "v", "i",
      "d", "e", "o", "'", "s", " ", "t", "r", "a", "n", "s", "c", "r", "i",
      "p", "t", ".">>

Fallback(v) == IF v = "TalkToYT" THEN Fallback_not_available ELSE Fallback_sorry

Str_not_available ==
    <<"n", "o", "t", " ", "a", "v", "a", "i", "l", "a", "b", "l", "e">>

Str_cannot_process ==
    <<"c", "a", "n", "n", "o", "t", " ", "p", "r", "o", "c", "e", "s", "s">>

\* The texts the model answers with.
Txt_blank ==
    <<" ", "\n">>

Txt_bold_only ==
    <<"*", "*">>

Txt_answer ==
    <<"o", "k">>

Txt_bold_answer ==
    <<"*", "*", "o", "k", "*", "*">>

Txt_not_available ==
    <<"N", "o", "t", " ", "A", "v", "a", "i", "l", "a", "b", "l", "e">>

Txt_cannot_process ==
    <<"I", " ", "c", "a", "n", "n", "o", "t", " ", "p", "r", "o", "c", "e",
      "s", "s">>

ChatTexts ==
    {<<>>, Txt_blank, Txt_bold_only, Txt_answer, Txt_bold_answer,
     Txt_not_available, Txt_cannot_process}

ChatOutcomes == {TextOutcome(t) : t \in ChatTexts} \cup {BlockedOutcome} \cup RaiseOutcomes

\* "not available" in t.lower() or "cannot process" in t.lower()
Disqualified(t0) ==
    Let1(Lower(t0), LAMBDA t :
        Contains(t, Str_not_available) \/ Contains(t, Str_cannot_process))

\* f"{n:02}": at least two characters, the sign among them.
Pad2(n) ==
    IF n < 0 THEN <<"-">> \o Decimal(-n)
    ELSE IF n < 10 THEN <<"0">> \o Decimal(n) ELSE Decimal(n)

\* format_timestamp(seconds).  seconds.num tells whether float(seconds)
\* succeeds and seconds.val is the floor of that float: "//" and "%" floor,
\* so hours, minutes and secs are those of the floor (\div and % floor too).
format_timestamp(seconds) ==
    Let1(IF seconds.num THEN seconds.val ELSE 0, LAMBDA sec :
        <<"[">> \o Pad2(sec \div 3600) \o <<":">> \o Pad2((sec % 3600) \div 60)
            \o <<":">> \o Pad2(sec % 60) \o <<"]">>)

\* The items of a transcript list: a dict with 'start' and 'text', or a
\* value without .get.
Item(start, text) == [dict |-> TRUE, start |-> [num |-> TRUE, val |-> start], text |-> text]

ItemBadStart == [dict |-> TRUE, start |-> [num |-> FALSE, val |-> 0], text |-> <<"c">>]

ItemNotDict == [dict |-> FALSE, start |-> [num |-> FALSE, val |-> 0], text |-> <<>>]

TranscriptLists ==
    {NoList,
     [kind |-> "list", items |-> <<>>],
     [kind |-> "list", items |-> <<Item(0, <<"a">>)>>],
     [kind |-> "list", items |-> <<Item(75, <<"a">>), Item(3661, <<"b">>)>>],
     [kind |-> "list", items |-> <<Item(5, <<"a">>), ItemBadStart>>],
     [kind |-> "list", items |-> <<Item(5, <<"a">>), ItemNotDict>>],
     [kind |-> "str", items |-> <<"x">>]}

\* " ".join(f"{format_timestamp(item.get('start', 0))} {item.get('text','')}" ...)
RECURSIVE JoinItems(_, _)
JoinItems(items, k0) ==
    Let1(k0, LAMBDA k :
        IF k > Len(items) THEN <<>>
        ELSE (IF k = 1 THEN <<>> ELSE <<" ">>)
             \o format_timestamp(items[k].start) \o <<" ">> \o items[k].text
             \o JoinItems(items, k + 1))

\* The api variant's formatted_transcript: the list when it is a non-empty
\* list whose items all have .get, else the flat transcript when it is a
\* string, else "".
FormattedTranscript(lst, flat) ==
    Let1(IF lst.kind = "list" /\ lst.items # <<>>
             /\ \A k \in 1..Len(lst.items) : lst.items[k].dict
         THEN JoinItems(lst.items, 1) ELSE <<>>, LAMBDA joined :
        IF joined = <<>> /\ flat # None THEN flat ELSE joined)

\* "not video_transcript_list"
NoItems(lst) == lst.kind = "none" \/ lst.items = <<>>

Str_q == <<"q">>

UserQueries == {None, <<>>, Str_q}

\* The validation of the body: the error message of the 400 reply, or ""
\* when the body passes.
ChatValidation(v, q, lst, flat) ==
    IF v = "api"
    THEN IF Falsy(q) THEN "User query is required"
         ELSE IF NoItems(lst) /\ Falsy(flat)
              THEN "Either 'video_transcript_list' or 'video_transcript' is required"
              ELSE ""
    ELSE IF Falsy(q) \/ Falsy(flat)
         THEN "User query and video transcript are required" ELSE ""

\* The body of the 500 reply of chat_with_video.
ChatError(v, exc) ==
    CASE v = "TalkToYT" /\ exc = "APIError" ->
            ErrorWithException("Gemini API error: {str(e)}. Please check your API key and quota.")
      [] v = "TalkToYT" ->
            ErrorWithException("Failed to get AI response: An unexpected error occurred. {str(e)}")
      [] v = "backend" ->
            ErrorFixed("An unexpected error occurred while getting the AI response.")
      [] OTHER -> ErrorFixed("An unexpected error occurred.")

InitChat ==
    /\ variant \in Variants
    /\ WorkersIdle
    /\ CallIdle
    /\ ChunksIdle
    /\ ExtractIdle
    /\ SummarizeIdle
    /\ TopicsIdle
    /\ formatted_transcript = <<>>
    /\ transcript_chunks = <<>>
    /\ chunk_i = 0
    /\ ai_response_text = <<>>
    /\ hpc = "recv"
    /\ user_query \in UserQueries
    /\ video_transcript \in Transcripts
    /\ video_transcript_list \in (IF variant = "api" THEN TranscriptLists ELSE {NoList})
    /\ reply = NoReply
    /\ gen_calls = <<>>
    /\ gen_results = <<>>

\* The 400 replies.
ChatMissing ==
    /\ hpc = "recv"
    /\ \E msg \in {ChatValidation(variant, user_query, video_transcript_list,
                                  video_transcript)} :
        /\ msg # ""
        /\ reply' = [status |-> 400, field |-> "error", value |-> ErrorFixed(msg)]
    /\ hpc' = "done"
    /\ UNCHANGED <<variant, workerVars, callVars, chunkVars, extractVars, sumVars, topicVars, genVars,
                   user_query, video_transcript, video_transcript_list,
                   formatted_transcript, transcript_chunks, chunk_i,
                   ai_response_text>>

\* api: the transcript of the prompt.
ApiFormat ==
    /\ hpc = "recv"
    /\ variant = "api"
    /\ ChatValidation(variant, user_query, video_transcript_list, video_transcript) = ""
    /\ formatted_transcript' = FormattedTranscript(video_transcript_list, video_transcript)
    /\ hpc' = "call"
    /\ UNCHANGED <<variant, workerVars, callVars, chunkVars, extractVars, sumVars, topicVars, genVars, bodyVars,
                   transcript_chunks, chunk_i, ai_response_text>>

\* api: ai_raw = call_gemini(prompt);
\* ai_response_text = clean_ai_response(ai_raw) or the fallback.
ApiGenerate ==
    /\ hpc = "call"
    /\ variant = "api"
    /\ \E o \in ChatOutcomes : \E cleaned \in {clean_ai_response(call_gemini(o))} :
        /\ gen_calls' = Append(gen_calls, formatted_transcript)
        /\ gen_results' = Append(gen_results, o)
        /\ ai_response_text' = IF cleaned # <<>> THEN cleaned ELSE Fallback(variant)
    /\ hpc' = "reply"
    /\ UNCHANGED <<variant, workerVars, callVars, chunkVars, extractVars, sumVars, topicVars, bodyVars,
                   formatted_transcript, transcript_chunks, chunk_i>>

\* backend: one call on the transcript, cut at ChatTruncateAt characters;
\* the cleaned text of the first part, or the fallback when there is none.
BackendGenerate ==
    /\ hpc = "recv"
    /\ variant = "backend"
    /\ ChatValidation(variant, user_query, video_transcript_list, video_transcript) = ""
    /\ \E o \in ChatOutcomes :
        /\ gen_calls' = Append(gen_calls,
                IF Len(video_transcript) > ChatTruncateAt
                THEN Slice(video_transcript, 0, ChatTruncateAt) ELSE video_transcript)
        /\ gen_results' = Append(gen_results, o)
        /\ IF o.kind = "raise"
           THEN /\ reply' = [status |-> 500, field |-> "error",
                             value |-> ChatError(variant, o.exc)]
                /\ ai_response_text' = Fallback(variant)
                /\ hpc' = "done"
           ELSE /\ ai_response_text' = IF o.kind = "text" THEN clean_ai_response(o.s)
                                       ELSE Fallback(variant)
                /\ hpc' = "reply"
                /\ UNCHANGED reply
    /\ UNCHANGED <<variant, workerVars, callVars, chunkVars, extractVars, sumVars, topicVars,
                   user_query, video_transcript, video_transcript_list,
                   formatted_transcript, transcript_chunks, chunk_i>>

\* TalkToYT: the windows of the transcript, and the fallback as the answer
\* so far.
TalkToYTChunk ==
    /\ hpc = "recv"
    /\ variant = "TalkToYT"
    /\ ChatValidation(variant, user_query, video_transcript_list, video_transcript) = ""
    /\ \E cs \in {get_transcript_chunks(video_transcript, MAX_TRANSCRIPT_LENGTH_CHARS,
                                       OVERLAP_CHARS)} :
        transcript_chunks' = IF cs = <<>> THEN <<video_transcript>> ELSE cs
    /\ ai_response_text' = Fallback(variant)
    /\ chunk_i' = 0
    /\ hpc' = "loop"
    /\ UNCHANGED <<variant, workerVars, callVars, chunkVars, extractVars, sumVars, topicVars, genVars, bodyVars,
                   formatted_transcript>>

\* part_text and "not available" not in part_text.lower()
\*           and "cannot process" not in part_text.lower()
Accepts(part_text) == part_text # <<>> /\ ~Disqualified(part_text)

\* Accepts on the text as clean_ai_response leaves it.
AcceptsCleaned(part_text) == Accepts(clean_ai_response(part_text))

\* TalkToYT: one pass of "for i, chunk in enumerate(transcript_chunks)".
TalkToYTIter ==
    /\ hpc = "loop"
    /\ chunk_i < Len(transcript_chunks)
    /\ \E o \in ChatOutcomes :
        /\ gen_calls' = Append(gen_calls, transcript_chunks[chunk_i + 1])
        /\ gen_results' = Append(gen_results, o)
        /\ IF o.kind = "raise"
           THEN /\ reply' = [status |-> 500, field |-> "error",
                             value |-> ChatError(variant, o.exc)]
                /\ hpc' = "done"
                /\ UNCHANGED <<ai_response_text, chunk_i>>
           ELSE IF o.kind = "text" /\ Accepts(o.s)
           THEN /\ ai_response_text' = o.s
                /\ hpc' = "reply"
                /\ UNCHANGED <<reply, chunk_i>>
           ELSE /\ chunk_i' = chunk_i + 1
                /\ hpc' = IF chunk_i + 1 < Len(transcript_chunks) THEN "loop" ELSE "reply"
                /\ UNCHANGED <<reply, ai_response_text>>
    /\ UNCHANGED <<variant, workerVars, callVars, chunkVars, extractVars, sumVars, topicVars,
                   user_query, video_transcript, video_transcript_list,
                   formatted_transcript, transcript_chunks>>

\* return jsonify({"response": ai_response_text})
ChatRespond ==
    /\ hpc = "reply"
    /\ reply' = [status |-> 200, field |-> "response", value |-> ai_response_text]
    /\ hpc' = "done"
    /\ UNCHANGED <<variant, workerVars, callVars, chunkVars, extractVars, sumVars, topicVars, genVars,
                   user_query, video_transcript, video_transcript_list,
                   formatted_transcript, transcript_chunks, chunk_i,
                   ai_response_text>>

NextChat ==
    \/ ChatMissing
    \/ ApiFormat
    \/ ApiGenerate
    \/ BackendGenerate
    \/ TalkToYTChunk
    \/ TalkToYTIter
    \/ ChatRespond

SpecChat == InitChat /\ [][NextChat]_vars

\* A 200 reply of chat_with_video.
ChatReplied == hpc = "done" /\ reply.status = 200

NoCallRaised == \A k \in 1..Len(gen_results) : gen_results[k].kind # "raise"

\* A generation result that is empty, blocked, cleans to empty text, or
\* contains a disqualifying phrase.
BadResult(o) == o.kind # "text" \/ ~AcceptsCleaned(o.s)

\* C9: on a request that passes validation and whose generation calls do
\* not raise, if every generation result is empty, blocked, cleans to empty
\* text or contains a disqualifying phrase, 'response' is the variant's
\* fallback string; and 'response' is never the empty string.
C9_FallbackNeverEmpty ==
    ChatReplied =>
        /\ reply.value # <<>>
        /\ (NoCallRaised /\ \A k \in 1..Len(gen_results) : BadResult(gen_results[k]))
               => reply.value = Fallback(variant)

\* The api variant never answers with the empty string.
ApiResponseNeverEmpty ==
    (ChatReplied /\ variant = "api") => reply.value # <<>>

\* What the variants do answer with: api the cleaned text or, when that is
\* empty, the fallback; backend the cleaned text of the part, empty or
\* not, and the fallback only when there is no part.
SingleCallAnswer ==
    (ChatReplied /\ variant # "TalkToYT") =>
        /\ Len(gen_results) = 1
        /\ LET o == gen_results[1]
               cleaned == clean_ai_response(call_gemini(o))
           IN  reply.value =
                   IF variant = "api"
                   THEN (IF cleaned # <<>> THEN cleaned ELSE Fallback(variant))
                   ELSE (IF o.kind = "text" THEN cleaned ELSE Fallback(variant))

\* The windows TalkToYT has called the service on are the first ones, in
\* window order.
CallsInWindowOrder ==
    variant = "TalkToYT" =>
        /\ Len(gen_calls) <= Len(transcript_chunks)
        /\ \A k \in 1..Len(gen_calls) : gen_calls[k] = transcript_chunks[k]

\* The indices of the results so far that satisfy P.
ResultsWhere(P(_)) == {k \in 1..Len(gen_results) : P(gen_results[k])}

\* TalkToYT stops at the first window whose text, as the service gave it,
\* is non-empty and has neither phrase, and answers with that text as given.
StopsAtFirstRawAccepted ==
    (ChatReplied /\ variant = "TalkToYT") =>
        LET acc == ResultsWhere(LAMBDA o : o.kind = "text" /\ Accepts(o.s))
        IN  IF acc # {}
            THEN /\ Len(gen_calls) = SetMin(acc)
                 /\ reply.value = gen_results[SetMin(acc)].s
            ELSE /\ Len(gen_calls) = Len(transcript_chunks)
                 /\ reply.value = Fallback(variant)

\* C10: TalkToYT calls the service on the windows in increasing order; the
\* response is the result for the first window whose text is non-empty
\* after cleaning and has neither 'not available' nor 'cannot process'
\* (either case); no call follows that acceptance, so the number of calls
\* is the index of that window plus one, or the number of windows when no
\* window is accepted (and the response is then the fallback).
C10_FirstCleanAccepted ==
    (ChatReplied /\ variant = "TalkToYT") =>
        /\ CallsInWindowOrder
        /\ LET acc == ResultsWhere(LAMBDA o : ~BadResult(o))
           IN  IF acc # {}
               THEN /\ Len(gen_calls) = SetMin(acc)
                    /\ reply.value \in {gen_results[SetMin(acc)].s,
                                        clean_ai_response(gen_results[SetMin(acc)].s)}
               ELSE /\ Len(gen_calls) = Len(transcript_chunks)
                    /\ reply.value = Fallback(variant)

(***************************************************************************)
(* summarize_video.                                                        *)
(***************************************************************************)
\* The fixed replies: for a transcript without windows, and for an empty
\* final text.
Msg_no_content ==
    <<"T", "h", "e", "r", "e", " ", "i", "s", " ", "n", "o", " ", "c", "o",
      "n", "t", "e", "n", "t", " ", "t", "o", " ", "s", "u", "m", "m", "a",
      "r", "i", "z", "e", ".">>

Msg_no_content_TalkToYT ==
    <<"N", "o", " ", "c", "o", "n", "t", "e", "n", "t", " ", "t", "o", " ",
      "s", "u", "m", "m", "a", "r", "i", "z", "e", ".">>

Msg_could_not ==
    <<"I", " ", "c", "o", "u", "l", "d", " ", "n", "o", "t", " ", "g", "e",
      "n", "e", "r", "a", "t", "e", " ", "a", " ", "s", "u", "m", "m", "a",
      "r", "y", " ", "f", "o", "r", " ", "t", "h", "i", "s", " ", "v", "i",
      "d", "e", "o", ".">>

Msg_could_not_TalkToYT ==
    <<"C", "o", "u", "l", "d", " ", "n", "o", "t", " ", "g", "e", "n", "e",
      "r", "a", "t", "e", " ", "a", " ", "c", "o", "m", "p", "r", "e", "h",
      "e", "n", "s", "i", "v", "e", " ", "s", "u", "m", "m", "a", "r", "y",
      " ", "b", "a", "s", "e", "d", " ", "o", "n", " ", "t", "h", "e", " ",
      "p", "r", "o", "v", "i", "d", "e", "d", " ", "t", "r", "a", "n", "s",
      "c", "r", "i", "p", "t", ".">>

Str_summary_separator ==
    <<"\n", "\n", "-", "-", "-", "\n", "\n">>

NoContentMessage(v) == IF v = "TalkToYT" THEN Msg_no_content_TalkToYT ELSE Msg_no_content

CouldNotMessage(v) == IF v = "TalkToYT" THEN Msg_could_not_TalkToYT ELSE Msg_could_not

\* The texts the model answers a summary prompt with.
SummaryTexts == {<<>>, Txt_blank, Txt_answer, Txt_bold_answer}

SummaryOutcomes ==
    {TextOutcome(t) : t \in SummaryTexts} \cup {BlockedOutcome} \cup RaiseOutcomes

\* sep.join(parts)
RECURSIVE JoinFrom(_, _, _)
JoinFrom(parts, sep, k0) ==
    Let1(k0, LAMBDA k :
        IF k > Len(parts) THEN <<>>
        ELSE (IF k = 1 THEN <<>> ELSE sep) \o parts[k] \o JoinFrom(parts, sep, k + 1))

Join(sep, parts0) == Let1(parts0, LAMBDA parts : JoinFrom(parts, sep, 1))

\* "if not video_transcript" with a transcript that is only tested for None.
RequiredOnlyPresent(flat) == flat = None

\* "if not video_transcript": the 400 reply of summarize_video.
TranscriptMissing(flat) == Falsy(flat)

\* What one pass of the loop takes from an outcome o of the service: an
\* exception that leaves the try block, or the text and whether it is
\* appended to summaries.  api: "resp = call_gemini(prompt); if resp:";
\* backend: "if response.text:", where response.text of a response without
\* candidates is outside this repository and may be empty or may raise;
\* TalkToYT: the text of candidates[0].content.parts[0], appended as it is.
WindowSummaryOf(v, o) ==
    CASE v = "api" ->
            {[raised |-> FALSE, exc |-> "", keep |-> call_gemini(o) # <<>>,
              text |-> call_gemini(o)]}
      [] o.kind = "raise" ->
            {[raised |-> TRUE, exc |-> o.exc, keep |-> FALSE, text |-> <<>>]}
      [] o.kind = "text" ->
            {[raised |-> FALSE, exc |-> "",
              keep |-> (v = "TalkToYT" \/ o.s # <<>>), text |-> o.s]}
      [] v = "TalkToYT" ->
            {[raised |-> FALSE, exc |-> "", keep |-> FALSE, text |-> <<>>]}
      [] OTHER ->
            {[raised |-> FALSE, exc |-> "", keep |-> FALSE, text |-> <<>>],
             [raised |-> TRUE, exc |-> "ValueError", keep |-> FALSE, text |-> <<>>]}

\* What the synthesis step takes from an outcome o: api
\* "call_gemini(final_prompt)", backend "final_response.text".
SynthesisTextOf(v, o) ==
    CASE v = "api" -> {[raised |-> FALSE, exc |-> "", text |-> call_gemini(o)]}
      [] o.kind = "raise" -> {[raised |-> TRUE, exc |-> o.exc, text |-> <<>>]}
      [] o.kind = "text" -> {[raised |-> FALSE, exc |-> "", text |-> o.s]}
      [] OTHER -> {[raised |-> FALSE, exc |-> "", text |-> <<>>],
                   [raised |-> TRUE, exc |-> "ValueError", text |-> <<>>]}

\* The body of the 500 reply of summarize_video.
SummarizeError(v, exc) ==
    CASE v = "TalkToYT" /\ exc = "APIError" ->
            ErrorWithException("Gemini API error during summarization: {str(e)}. Check key and quota.")
      [] v = "TalkToYT" ->
            ErrorWithException("Failed to generate summary: An unexpected error occurred. {str(e)}")
      [] OTHER -> ErrorFixed("An unexpected error occurred while generating the summary.")

\* The text of the 200 reply when no synthesis call is made: api and
\* backend clean summaries[0] (or ""), TalkToYT joins the summaries with
\* spaces and strips; an empty text is replaced by the fixed message.
DirectSummary(v, sums0) ==
    Let1(sums0, LAMBDA sums :
    Let1(IF v = "TalkToYT" THEN Strip(Join(<<" ">>, sums))
         ELSE clean_ai_response(IF sums # <<>> THEN sums[1] ELSE <<>>), LAMBDA text :
        IF text = <<>> THEN CouldNotMessage(v) ELSE text))

\* The loop index after a pass that goes over the same window again when
\* the service gave no text.
SamePassOnNoText(i, o) == IF o.kind = "text" /\ o.s # <<>> THEN i + 1 ELSE i

\* "for i, chunk in enumerate(transcript_chunks)": the index after the pass
\* for window i, whatever the outcome o of its call.
NextPass(i, o) == i + 1

InitSummarize ==
    /\ variant \in Variants
    /\ WorkersIdle
    /\ CallIdle
    /\ ChunksIdle
    /\ ExtractIdle
    /\ TopicsIdle
    /\ ChatIdle
    /\ user_query = None
    /\ video_transcript \in Transcripts
    /\ video_transcript_list = NoList
    /\ reply = NoReply
    /\ gen_calls = <<>>
    /\ gen_results = <<>>
    /\ summaries = <<>>
    /\ spc = "recv"

\* "if not video_transcript: return ... 400"
SummarizeMissing ==
    /\ spc = "recv"
    /\ TranscriptMissing(video_transcript)
    /\ reply' = [status |-> 400, field |-> "error",
                 value |-> ErrorFixed("Video transcript is required")]
    /\ spc' = "done"
    /\ UNCHANGED <<variant, workerVars, callVars, chunkVars, extractVars, topicVars, chatVars, genVars,
                   user_query, video_transcript, video_transcript_list, summaries>>

\* The windows; "if not transcript_chunks: return" the fixed reply.
SummarizeChunk ==
    /\ spc = "recv"
    /\ ~TranscriptMissing(video_transcript)
    /\ \E cs \in {get_transcript_chunks(video_transcript, MAX_TRANSCRIPT_LENGTH_CHARS,
                                       OVERLAP_CHARS)} :
        /\ transcript_chunks' = cs
        /\ IF cs = <<>>
           THEN /\ reply' = [status |-> 200, field |-> "summary",
                             value |-> NoContentMessage(variant)]
                /\ spc' = "done"
           ELSE /\ spc' = "loop"
                /\ UNCHANGED reply
    /\ chunk_i' = 0
    /\ summaries' = <<>>
    /\ UNCHANGED <<variant, workerVars, callVars, chunkVars, extractVars, topicVars, genVars,
                   user_query, video_transcript, video_transcript_list,
                   formatted_transcript, ai_response_text, hpc>>

\* One pass of "for i, chunk in enumerate(transcript_chunks)".
SummarizeIter ==
    /\ spc = "loop"
    /\ chunk_i < Len(transcript_chunks)
    /\ \E o \in SummaryOutcomes : \E r \in WindowSummaryOf(variant, o) :
        /\ gen_calls' = Append(gen_calls, transcript_chunks[chunk_i + 1])
        /\ gen_results' = Append(gen_results, o)
        /\ IF r.raised
           THEN /\ reply' = [status |-> 500, field |-> "error",
                             value |-> SummarizeError(variant, r.exc)]
                /\ spc' = "done"
                /\ UNCHANGED <<summaries, chunk_i>>
           ELSE /\ summaries' = IF r.keep THEN Append(summaries, r.text) ELSE summaries
                /\ chunk_i' = NextPass(chunk_i, o)
                /\ spc' = IF NextPass(chunk_i, o) < Len(transcript_chunks)
                          THEN "loop" ELSE "final"
                /\ UNCHANGED reply
    /\ UNCHANGED <<variant, workerVars, callVars, chunkVars, extractVars, topicVars,
                   user_query, video_transcript, video_transcript_list,
                   formatted_transcript, transcript_chunks, ai_response_text, hpc>>

\* api, backend: "if len(summaries) > 1": the synthesis call over the joined
\* summaries, and the reply with its cleaned text (or the fixed message).
SummarizeSynthesize ==
    /\ spc = "final"
    /\ variant # "TalkToYT"
    /\ Len(summaries) > 1
    /\ \E o \in SummaryOutcomes : \E r \in SynthesisTextOf(variant, o) :
        /\ gen_calls' = Append(gen_calls, Join(Str_summary_separator, summaries))
        /\ gen_results' = Append(gen_results, o)
        /\ reply' = IF r.raised
                    THEN [status |-> 500, field |-> "error",
                          value |-> SummarizeError(variant, r.exc)]
                    ELSE [status |-> 200, field |-> "summary",
                          value |-> IF clean_ai_response(r.text) = <<>>
                                    THEN CouldNotMessage(variant)
                                    ELSE clean_ai_response(r.text)]
    /\ spc' = "done"
    /\ UNCHANGED <<variant, workerVars, callVars, chunkVars, extractVars, topicVars, chatVars,
                   user_query, video_transcript, video_transcript_list, summaries>>

\* The reply without a synthesis call: api and backend with at most one
\* summary, TalkToYT always.
SummarizeDirect ==
    /\ spc = "final"
    /\ variant = "TalkToYT" \/ Len(summaries) <= 1
    /\ reply' = [status |-> 200, field |-> "summary",
                 value |-> DirectSummary(variant, summaries)]
    /\ spc' = "done"
    /\ UNCHANGED <<variant, workerVars, callVars, chunkVars, extractVars, topicVars, chatVars, genVars,
                   user_query, video_transcript, video_transcript_list, summaries>>

NextSummarize ==
    \/ SummarizeMissing
    \/ SummarizeChunk
    \/ SummarizeIter
    \/ SummarizeSynthesize
    \/ SummarizeDirect

SpecSummarize == InitSummarize /\ [][NextSummarize]_vars

\* A finished summarize request, and one that ended with a summary.
SummarizeDone == spc = "done"

SummarizeReplied == spc = "done" /\ reply.status = 200

\* The empty transcript is rejected like the missing one, before any window
\* is cut; a request that passes has at least one window.
C11_EmptyIsRejected ==
    /\ (SummarizeDone /\ video_transcript = <<>>) =>
           /\ reply.status = 400
           /\ reply.field = "error"
           /\ gen_calls = <<>>
    /\ (spc \in {"loop", "final"} \/ (SummarizeDone /\ reply.status # 400)) =>
           transcript_chunks # <<>>

C11_Witness ==
    /\ SummarizeDone
    /\ video_transcript = <<>>
    /\ reply.status = 400

\* C11: summarize-video called with an empty transcript (zero windows)
\* responds successfully with the fixed 'nothing to summarize' message in
\* the 'summary' field, not with an error status.
C11_EmptyGivesMessage ==
    (SummarizeDone /\ video_transcript = <<>>) =>
        /\ reply.status = 200
        /\ reply.field = "summary"
        /\ reply.value = NoContentMessage(variant)

\* The per-window results that carry non-empty text, as indices, and their
\* texts in window order.
WindowsWithText ==
    {k \in 1..Min(Len(gen_results), Len(transcript_chunks)) :
        gen_results[k].kind = "text" /\ gen_results[k].s # <<>>}

TextsInOrder ==
    LET n == Min(Len(gen_results), Len(transcript_chunks))
    IN  SelectSeq([k \in 1..n |-> gen_results[k]],
                  LAMBDA o : o.kind = "text" /\ o.s # <<>>)

\* The reply when exactly one window gave text t: t, trimmed or cleaned
\* (the fixed message when nothing is left of it).
UsedDirectly(t) ==
    IF Strip(t) = <<>> THEN reply.value = CouldNotMessage(variant)
    ELSE reply.value \in {Strip(t), clean_ai_response(t)}

\* The two-phase summary, as api and backend run it and as the claim
\* states it for every variant.
TwoPhase ==
    LET n == Len(transcript_chunks)
        k == Cardinality(WindowsWithText)
    IN  /\ Len(gen_calls) = n + (IF k > 1 THEN 1 ELSE 0)
        /\ \A i \in 1..n : gen_calls[i] = transcript_chunks[i]
        /\ k > 1 => gen_calls[n + 1] =
                        Join(Str_summary_separator,
                             [i \in 1..Len(TextsInOrder) |-> TextsInOrder[i].s])
        /\ k = 1 => UsedDirectly(TextsInOrder[1].s)

\* C12: for a transcript of more than one window, in every variant, the
\* per-window calls are issued in transcript order; one synthesis call is
\* issued, after them, over the summaries joined in order, if and only if
\* more than one window gave non-empty text; with exactly one summary, that
\* summary is the reply and no synthesis call is made.
C12_SynthesisIffSeveral ==
    (SummarizeReplied /\ Len(transcript_chunks) > 1) => TwoPhase

\* The api and backend variants run the two phases as stated.
TwoPhaseOutsideTalkToYT ==
    (SummarizeReplied /\ Len(transcript_chunks) > 1 /\ variant # "TalkToYT") => TwoPhase

\* The TalkToYT variant never issues a synthesis call: it replies with the
\* summaries joined by spaces.
TalkToYTJoinsSummaries ==
    (SummarizeReplied /\ variant = "TalkToYT") =>
        /\ Len(gen_calls) = Len(transcript_chunks)
        /\ reply.value = DirectSummary(variant, summaries)

\* A call that yields no text: a response without candidates, or with
\* empty text.
NoText(o) == o.kind = "blocked" \/ (o.kind = "text" /\ o.s = <<>>)

\* C18: summarize-video on a non-empty transcript for which every
\* per-window call yields no text replies with a fixed message in
\* 'summary' (one of the variant's two fixed messages) and issues no
\* synthesis call.
C18_NoSummariesGivesMessage ==
    (SummarizeDone /\ ~Falsy(video_transcript)
        /\ \A k \in 1..Len(gen_results) : NoText(gen_results[k])) =>
        /\ reply.status = 200
        /\ reply.field = "summary"
        /\ reply.value \in {NoContentMessage(variant), CouldNotMessage(variant)}
        /\ Len(gen_calls) = Len(transcript_chunks)

\* The same, where the service's response is read without response.text
\* (api, TalkToYT), and with the message the code uses.
NoSummariesOutsideBackend ==
    (SummarizeDone /\ ~Falsy(video_transcript) /\ variant # "backend"
        /\ \A k \in 1..Len(gen_results) : NoText(gen_results[k])) =>
        /\ reply.status = 200
        /\ reply.value = CouldNotMessage(variant)
        /\ Len(gen_calls) = Len(transcript_chunks)


(***************************************************************************)
(* The three generation endpoints together: a request is a chat, a topics  *)
(* or a summarize request.                                                 *)
(***************************************************************************)
InitLlm == InitChat \/ InitTopics \/ InitSummarize

NextLlm == NextChat \/ NextTopics \/ NextSummarize

SpecLlm == InitLlm /\ [][NextLlm]_vars

\* C13: in chat-with-video and summarize-video, when no generation call
\* raises (calls return text, empty text or a response without candidates),
\* the request never ends with a 500: a window's soft failure is absorbed.
C13_SoftFailuresAbsorbed ==
    ((hpc = "done" \/ spc = "done") /\ NoCallRaised) =>
        /\ reply.status # 500
        /\ reply.status = 200 => reply.field \in {"response", "summary"}

\* Soft failures end in a 200 reply wherever the handler tests
\* response.candidates or goes through call_gemini: everywhere but the
\* backend variant's summarize_video.
SoftFailuresAbsorbedWhereGuarded ==
    ((hpc = "done" \/ (spc = "done" /\ variant # "backend")) /\ NoCallRaised) =>
        reply.status # 500

\* C19: no retries.  Every window receives at most one generation call,
\* whatever the call returns: the calls of chunked chat are the first
\* windows in order, at most one per window; those of summarize are the
\* windows in order and at most one call more; extract-topics and
\* whole-transcript chat issue at most one call.
C19_NoRetries ==
    /\ (hpc # "idle" /\ variant = "TalkToYT") =>
           /\ Len(gen_calls) <= Len(transcript_chunks)
           /\ \A k \in 1..Len(gen_calls) : gen_calls[k] = transcript_chunks[k]
    /\ (hpc # "idle" /\ variant # "TalkToYT") => Len(gen_calls) <= 1
    /\ tpc # "idle" => Len(gen_calls) <= 1
    /\ spc # "idle" =>
           /\ Len(gen_calls) <= Len(transcript_chunks) + 1
           /\ \A k \in 1..Min(Len(gen_calls), Len(transcript_chunks)) :
                  gen_calls[k] = transcript_chunks[k]

C19_Witness ==
    /\ spc = "done"
    /\ Len(transcript_chunks) = 3
    /\ Len(gen_calls) = 4
    /\ gen_results[2].kind = "blocked"

\* C14: extract-topics issues exactly one generation call per validated
\* request, on the first MAX_TRANSCRIPT_LENGTH_CHARS characters of the
\* transcript, and replies 200 with an empty 'topics' list when the model
\* output is empty or blocked.
C14_OneCallEmptyList ==
    (tpc \in {"parse", "done"} /\ ~Falsy(video_transcript)) =>
        /\ Len(gen_calls) = 1
        /\ gen_calls[1] = Slice(video_transcript, 0, MAX_TRANSCRIPT_LENGTH_CHARS)
        /\ (tpc = "done" /\ NoText(gen_results[1])) =>
               /\ reply.status = 200
               /\ reply.field = "topics"
               /\ reply.value = <<>>

\* The same for the variants that do not read response.text.
OneCallEmptyListOutsideBackend ==
    (tpc \in {"parse", "done"} /\ ~Falsy(video_transcript) /\ variant # "backend") =>
        /\ Len(gen_calls) = 1
        /\ gen_calls[1] = Slice(video_transcript, 0, MAX_TRANSCRIPT_LENGTH_CHARS)
        /\ (tpc = "done" /\ NoText(gen_results[1])) =>
               (reply.status = 200 /\ reply.value = <<>>)

\* The video content of a chat request is empty: no transcript string, and
\* (api) no list that formats to text.
ChatContentEmpty ==
    IF variant = "api"
    THEN FormattedTranscript(video_transcript_list, video_transcript) = <<>>
    ELSE Falsy(video_transcript)

\* A required input of the request is missing or empty.
RequiredMissing ==
    \/ hpc # "idle" /\ (Falsy(user_query) \/ ChatContentEmpty)
    \/ tpc # "idle" /\ Falsy(video_transcript)
    \/ spc # "idle" /\ Falsy(video_transcript)

\* C16: chat-with-video, summarize-video and extract-topics reply 400 and
\* issue no generation call whenever a required input is missing or empty
\* (no user query, or no transcript content: neither a usable transcript
\* list nor a non-empty transcript string); no generation call is ever
\* issued for a chat request whose video content is empty.
C16_MissingInputRejected ==
    RequiredMissing =>
        /\ gen_calls = <<>>
        /\ (hpc = "done" \/ tpc = "done" \/ spc = "done") => reply.status = 400

\* The same, outside the api variant's chat_with_video.
MissingInputRejectedElsewhere ==
    (RequiredMissing /\ ~(hpc # "idle" /\ variant = "api")) =>
        /\ gen_calls = <<>>
        /\ (hpc = "done" \/ tpc = "done" \/ spc = "done") => reply.status = 400

\* The api variant's chat_with_video rejects a request without user query,
\* and one with neither a truthy list nor a truthy transcript.
ApiChatRejectsAbsentFields ==
    (hpc = "done" /\ variant = "api"
        /\ (Falsy(user_query) \/ (NoItems(video_transcript_list) /\ Falsy(video_transcript)))) =>
        (reply.status = 400 /\ gen_calls = <<>>)


(***************************************************************************)
(* Several workers of one process, each running summarize_video or         *)
(* chat_with_video on its own request.  The only module-level name the     *)
(* handlers read is model; everything else is a local of the handler.      *)
(***************************************************************************)
Workers == {"w1", "w2"}

\* What the module-level "model = genai.GenerativeModel(...)" leaves: the
\* client, or, when the constructor raised, None (api) or no binding at all
\* (backend, TalkToYT: the except branch assigns nothing).
Handles(v) == IF v = "api" THEN {"client", "None"} ELSE {"client", "unbound"}

\* The requests the workers receive.
WorkerTranscripts == {<<>>, TextOf(MaxTranscript - 1), TextOf(MaxTranscript)}

WorkerBodies ==
    {[kind |-> "summarize", user_query |-> None, video_transcript |-> t] :
        t \in WorkerTranscripts}
    \cup {[kind |-> "chat", user_query |-> Str_q, video_transcript |-> t] :
        t \in WorkerTranscripts}

\* The locals of a handler that has just been entered.
NewRequest(b) ==
    [kind |-> b.kind, user_query |-> b.user_query, video_transcript |-> b.video_transcript,
     transcript_chunks |-> <<>>, chunk_i |-> 0, summaries |-> <<>>,
     ai_response_text |-> <<>>, calls |-> <<>>, results |-> <<>>,
     reply |-> NoReply, pc |-> "recv"]

\* What the service does with a call of a worker.
WorkerOutcomes ==
    {TextOutcome(Txt_bold_answer), BlockedOutcome,
     [kind |-> "raise", s |-> <<>>, exc |-> "Exception"]}

\* What "model.generate_content(prompt)" can do under handle m: the service's
\* outcomes; with model None, call_gemini returns "" without a call; with
\* model unbound, the name lookup raises inside the handler's try block.
HandleOutcomes(m, v) ==
    CASE m = "client" -> WorkerOutcomes
      [] m = "None" -> {[kind |-> "nohandle", s |-> <<>>, exc |-> ""]}
      [] OTHER -> {[kind |-> "raise", s |-> <<>>, exc |-> "NameError"]}

\* One list of locals at module level, used by every worker.
ModuleFrame(w) == CHOOSE u \in Workers : TRUE

\* The frame that holds summaries and ai_response_text of the handler that
\* worker w runs: they are assigned inside the handler, so the frame is the
\* worker's own call.
LocalFrame(w) == w

\* The transcript segments chat_with_video puts in its prompts, in order:
\* api the formatted transcript, backend the transcript cut at
\* ChatTruncateAt, TalkToYT the windows (or the whole transcript).
ChatWindows(v, flat) ==
    CASE v = "api" -> <<FormattedTranscript(NoList, flat)>>
      [] v = "backend" ->
            <<IF Len(flat) > ChatTruncateAt THEN Slice(flat, 0, ChatTruncateAt) ELSE flat>>
      [] OTHER ->
            Let1(get_transcript_chunks(flat, MAX_TRANSCRIPT_LENGTH_CHARS, OVERLAP_CHARS),
                 LAMBDA cs : IF cs = <<>> THEN <<flat>> ELSE cs)

\* What chat_with_video takes from an outcome o: an exception that leaves
\* the try block, or a text and whether it ends the loop with that text.
ChatTaken(v, o) ==
    CASE v = "api" ->
            Let1(clean_ai_response(call_gemini(o)), LAMBDA cleaned :
                [raised |-> FALSE, exc |-> "", keep |-> TRUE,
                 text |-> IF cleaned # <<>> THEN cleaned ELSE Fallback(v)])
      [] o.kind = "raise" ->
            [raised |-> TRUE, exc |-> o.exc, keep |-> FALSE, text |-> <<>>]
      [] v = "backend" ->
            [raised |-> FALSE, exc |-> "", keep |-> TRUE,
             text |-> IF o.kind = "text" THEN clean_ai_response(o.s) ELSE Fallback(v)]
      [] OTHER ->
            [raised |-> FALSE, exc |-> "", keep |-> o.kind = "text" /\ Accepts(o.s),
             text |-> o.s]

\* The validation of worker request r: the message of the 400 reply, or "".
WorkerValidation(v, r) ==
    IF r.kind = "summarize"
    THEN IF TranscriptMissing(r.video_transcript)
         THEN "Video transcript is required" ELSE ""
    ELSE ChatValidation(v, r.user_query, NoList, r.video_transcript)

\* The windows of worker request r.
WorkerWindows(v, r) ==
    IF r.kind = "summarize"
    THEN get_transcript_chunks(r.video_transcript, MAX_TRANSCRIPT_LENGTH_CHARS,
                               OVERLAP_CHARS)
    ELSE ChatWindows(v, r.video_transcript)

\* The body of the 500 reply of worker request r.
WorkerError(v, r, exc) ==
    [status |-> 500, field |-> "error",
     value |-> IF r.kind = "summarize" THEN SummarizeError(v, exc) ELSE ChatError(v, exc)]

\* The result of a call as the handler sees it, and the calls and results
\* of a request after the call on content c under handle m.
Called(r, m, c, o, t) ==
    [r EXCEPT !.calls = IF m = "client" THEN Append(@, c) ELSE @,
              !.results = Append(@, [o |-> o, raised |-> t.raised, exc |-> t.exc,
                                     keep |-> t.keep, text |-> t.text])]

InitWorkers ==
    /\ variant \in Variants
    /\ CallIdle
    /\ ChunksIdle
    /\ ExtractIdle
    /\ LlmIdle
    /\ model \in Handles(variant)
    /\ requests \in [Workers -> {NewRequest(b) : b \in WorkerBodies}]

\* The 400 reply of either handler.
WorkerReject(w) ==
    /\ requests[w].pc = "recv"
    /\ WorkerValidation(variant, requests[w]) # ""
    /\ requests' = [requests EXCEPT
            ![w].reply = [status |-> 400, field |-> "error",
                          value |-> ErrorFixed(WorkerValidation(variant, requests[w]))],
            ![w].pc = "done"]
    /\ UNCHANGED <<variant, callVars, chunkVars, extractVars, llmVars, model>>

\* The windows, and the first assignments of summaries and ai_response_text.
WorkerChunk(w) ==
    /\ requests[w].pc = "recv"
    /\ WorkerValidation(variant, requests[w]) = ""
    /\ \E cs \in {WorkerWindows(variant, requests[w])} :
        requests' =
            IF cs = <<>>
            THEN [requests EXCEPT
                    ![w].reply = [status |-> 200, field |-> "summary",
                                  value |-> NoContentMessage(variant)],
                    ![w].pc = "done"]
            ELSE [requests EXCEPT
                    ![w].transcript_chunks = cs,
                    ![LocalFrame(w)].summaries = <<>>,
                    ![LocalFrame(w)].ai_response_text = Fallback(variant),
                    ![w].pc = "loop"]
    /\ UNCHANGED <<variant, callVars, chunkVars, extractVars, llmVars, model>>

\* summarize_video: one pass of the loop over the windows.
WorkerSummarizeIter(w) ==
    /\ requests[w].pc = "loop"
    /\ requests[w].kind = "summarize"
    /\ \E o \in HandleOutcomes(model, variant) : \E t \in WindowSummaryOf(variant, o) :
        LET r == requests[w]
            c == r.transcript_chunks[r.chunk_i + 1]
        IN  requests' =
              IF t.raised
              THEN [requests EXCEPT
                      ![w] = [Called(r, model, c, o, t) EXCEPT
                                !.reply = WorkerError(variant, r, t.exc), !.pc = "done"]]
              ELSE [requests EXCEPT
                      ![w] = [Called(r, model, c, o, t) EXCEPT
                                !.chunk_i = NextPass(r.chunk_i, o),
                                !.pc = IF NextPass(r.chunk_i, o) < Len(r.transcript_chunks)
                                       THEN "loop" ELSE "final"],
                      ![LocalFrame(w)].summaries = IF t.keep THEN Append(@, t.text) ELSE @]
    /\ UNCHANGED <<variant, callVars, chunkVars, extractVars, llmVars, model>>

\* summarize_video: the synthesis call (api, backend with several
\* summaries) or the reply without it.
WorkerSummarizeFinal(w) ==
    /\ requests[w].pc = "final"
    /\ LET r == requests[w]
           sums == requests[LocalFrame(w)].summaries
       IN  IF variant # "TalkToYT" /\ Len(sums) > 1
           THEN \E o \in HandleOutcomes(model, variant) : \E s \in SynthesisTextOf(variant, o) :
                  requests' = [requests EXCEPT
                      ![w] = [Called(r, model, Join(Str_summary_separator, sums), o,
                                     [raised |-> s.raised, exc |-> s.exc, keep |-> FALSE,
                                      text |-> s.text]) EXCEPT
                                !.reply = IF s.raised THEN WorkerError(variant, r, s.exc)
                                          ELSE [status |-> 200, field |-> "summary",
                                                value |-> IF clean_ai_response(s.text) = <<>>
                                                          THEN CouldNotMessage(variant)
                                                          ELSE clean_ai_response(s.text)],
                                !.pc = "done"]]
           ELSE requests' = [requests EXCEPT
                      ![w].reply = [status |-> 200, field |-> "summary",
                                    value |-> DirectSummary(variant, sums)],
                      ![w].pc = "done"]
    /\ UNCHANGED <<variant, callVars, chunkVars, extractVars, llmVars, model>>

\* chat_with_video: the call of api and backend, one pass of the loop of
\* TalkToYT.
WorkerChatCall(w) ==
    /\ requests[w].pc = "loop"
    /\ requests[w].kind = "chat"
    /\ \E o \in HandleOutcomes(model, variant) : \E t \in {ChatTaken(variant, o)} :
        LET r == requests[w]
            c == r.transcript_chunks[r.chunk_i + 1]
        IN  requests' =
              IF t.raised
              THEN [requests EXCEPT
                      ![w] = [Called(r, model, c, o, t) EXCEPT
                                !.reply = WorkerError(variant, r, t.exc), !.pc = "done"]]
              ELSE IF t.keep
              THEN [requests EXCEPT
                      ![w] = [Called(r, model, c, o, t) EXCEPT !.pc = "reply"],
                      ![LocalFrame(w)].ai_response_text = t.text]
              ELSE [requests EXCEPT
                      ![w] = [Called(r, model, c, o, t) EXCEPT
                                !.chunk_i = r.chunk_i + 1,
                                !.pc = IF r.chunk_i + 1 < Len(r.transcript_chunks)
                                       THEN "loop" ELSE "reply"]]
    /\ UNCHANGED <<variant, callVars, chunkVars, extractVars, llmVars, model>>

\* chat_with_video: return jsonify({"response": ai_response_text})
WorkerChatRespond(w) ==
    /\ requests[w].pc = "reply"
    /\ requests' = [requests EXCEPT
            ![w].reply = [status |-> 200, field |-> "response",
                          value |-> requests[LocalFrame(w)].ai_response_text],
            ![w].pc = "done"]
    /\ UNCHANGED <<variant, callVars, chunkVars, extractVars, llmVars, model>>

NextWorkers ==
    \E w \in Workers :
        \/ WorkerReject(w)
        \/ WorkerChunk(w)
        \/ WorkerSummarizeIter(w)
        \/ WorkerSummarizeFinal(w)
        \/ WorkerChatCall(w)
        \/ WorkerChatRespond(w)

SpecWorkers == InitWorkers /\ [][NextWorkers]_vars

\* The indices of the results of request r at which the call raised, and at
\* which the text was kept.
RaisedAt(r) == {k \in 1..Len(r.results) : r.results[k].raised}

KeptAt(r) == {k \in 1..Len(r.results) : r.results[k].keep}

IsKept(x) == x.keep

\* The texts request r kept from the calls on its first n windows, in order.
KeptTexts(r, n) ==
    Let1(SelectSeq(SubSeq(r.results, 1, Min(n, Len(r.results))), IsKept), LAMBDA kept :
        [k \in 1..Len(kept) |-> kept[k].text])

\* The reply of a finished summarize request, from its own transcript and
\* the results of its own calls.
OwnSummarizeReply(v, r) ==
    LET n == Len(WorkerWindows(v, r))
        texts == KeptTexts(r, n)
    IN  IF WorkerValidation(v, r) # ""
        THEN /\ r.results = <<>>
             /\ r.reply = [status |-> 400, field |-> "error",
                           value |-> ErrorFixed(WorkerValidation(v, r))]
        ELSE IF RaisedAt(r) # {}
        THEN /\ Len(r.results) = SetMin(RaisedAt(r))
             /\ r.reply = WorkerError(v, r, r.results[Len(r.results)].exc)
        ELSE IF v # "TalkToYT" /\ Len(texts) > 1
        THEN /\ Len(r.results) = n + 1
             /\ r.reply = [status |-> 200, field |-> "summary",
                           value |-> IF clean_ai_response(r.results[n + 1].text) = <<>>
                                     THEN CouldNotMessage(v)
                                     ELSE clean_ai_response(r.results[n + 1].text)]
        ELSE /\ Len(r.results) = n
             /\ r.reply = [status |-> 200, field |-> "summary",
                           value |-> DirectSummary(v, texts)]

\* The reply of a finished chat request, from its own body and the results
\* of its own calls.
OwnChatReply(v, r) ==
    IF WorkerValidation(v, r) # ""
    THEN /\ r.results = <<>>
         /\ r.reply = [status |-> 400, field |-> "error",
                       value |-> ErrorFixed(WorkerValidation(v, r))]
    ELSE IF RaisedAt(r) # {}
    THEN /\ Len(r.results) = SetMin(RaisedAt(r))
         /\ r.reply = WorkerError(v, r, r.results[Len(r.results)].exc)
    ELSE IF KeptAt(r) # {}
    THEN /\ Len(r.results) = SetMin(KeptAt(r))
         /\ r.reply = [status |-> 200, field |-> "response",
                       value |-> r.results[Len(r.results)].text]
    ELSE /\ Len(r.results) = Len(WorkerWindows(v, r))
         /\ r.reply = [status |-> 200, field |-> "response", value |-> Fallback(v)]

\* Every prompt request r has sent carries one of its own windows, in window
\* order, or, after the last window, the join of its own kept summaries.
OwnCalls(v, r) ==
    LET W == WorkerWindows(v, r)
    IN  \A k \in 1..Len(r.calls) :
            r.calls[k] = IF k <= Len(W) THEN W[k]
                         ELSE Join(Str_summary_separator, KeptTexts(r, Len(W)))

\* A step changes the locals of one request at most.
OneRequestPerStep ==
    \A w, u \in Workers :
        (requests'[w] # requests[w] /\ requests'[u] # requests[u]) => w = u

\* C17: no shared mutable state crosses requests.  Under every interleaving
\* of the workers, the reply of a finished request is the one its own body
\* and the results of its own generation calls determine, and every prompt
\* it sends is built from its own windows and summaries; no step writes the
\* module-level client handle, and no step changes the locals of two
\* requests.
C17_RequestsIsolated ==
    /\ [](\A w \in DOMAIN requests :
            /\ OwnCalls(variant, requests[w])
            /\ requests[w].pc = "done" =>
                 IF requests[w].kind = "summarize"
                 THEN OwnSummarizeReply(variant, requests[w])
                 ELSE OwnChatReply(variant, requests[w]))
    /\ [][requests # <<>> => (model' = model /\ OneRequestPerStep)]_vars

\* Both workers have finished: one has summarized a transcript of several
\* windows through a synthesis call, while the other, on a different
\* transcript, has had calls of its own and replied.
C17_Witness ==
    /\ requests # <<>>
    /\ variant = "api"
    /\ model = "client"
    /\ requests["w1"].pc = "done" /\ requests["w2"].pc = "done"
    /\ requests["w1"].kind = "summarize"
    /\ Len(requests["w1"].calls) = Len(requests["w1"].transcript_chunks) + 1
    /\ requests["w1"].reply.status = 200
    /\ requests["w2"].video_transcript # requests["w1"].video_transcript
    /\ requests["w2"].results # <<>>
    /\ requests["w2"].reply.status = 200

(***************************************************************************)
(* format_timestamp called on its own (api variant).                       *)
(***************************************************************************)
\* The largest second count of the dense range of inputs.
MaxSeconds == 61

\* The second counts: a dense range around zero, and the values around one
\* hour and around a hundred hours.
TimestampSeconds ==
    (-MaxSeconds..MaxSeconds)
    \cup {-3601, -3600, -3599, 3599, 3600, 3661, 86399, 359999, 360000, 360001}

\* The arguments: a number, given by its floor and by whether it is whole,
\* or a value float() rejects.
TimestampInputs ==
    {[num |-> TRUE, val |-> v, whole |-> w] : v \in TimestampSeconds, w \in BOOLEAN}
    \cup {[num |-> FALSE, val |-> 0, whole |-> TRUE]}

InitTimestamp ==
    /\ variant = "api"
    /\ ChunksIdle
    /\ ExtractIdle
    /\ LlmIdle
    /\ WorkersIdle
    /\ fn = "format_timestamp"
    /\ fn_arg \in TimestampInputs
    /\ fn_ret = <<>>
    /\ fpc = "call"

TimestampCall ==
    /\ fpc = "call"
    /\ fn = "format_timestamp"
    /\ fn_ret' = format_timestamp(fn_arg)
    /\ fpc' = "done"
    /\ UNCHANGED <<variant, chunkVars, extractVars, llmVars, workerVars, fn, fn_arg>>

NextTimestamp == TimestampCall

SpecTimestamp == InitTimestamp /\ [][NextTimestamp]_vars

TimestampDone == fpc = "done" /\ fn = "format_timestamp"

\* The value of a digit character.
DigitVal(c) == (CHOOSE i \in 1..Len(Digits) : Digits[i] = c) - 1

IsDigit(c) == \E i \in 1..Len(Digits) : Digits[i] = c

\* s has the shape "[HH:MM:SS]", every field two digits.
TimestampShape(s) ==
    /\ Len(s) = 10
    /\ s[1] = "[" /\ s[4] = ":" /\ s[7] = ":" /\ s[10] = "]"
    /\ \A i \in {2, 3, 5, 6, 8, 9} : IsDigit(s[i])

\* The field of a well-shaped s that starts at index i.
TimestampField(s, i) == 10 * DigitVal(s[i]) + DigitVal(s[i + 1])

\* A number truncated toward zero.
TruncatedSeconds(x) == IF x.val < 0 /\ ~x.whole THEN x.val + 1 ELSE x.val

Str_zero_timestamp == <<"[", "0", "0", ":", "0", "0", ":", "0", "0", "]">>

\* C21: format_timestamp(s) of a number s has the shape "[HH:MM:SS]" with
\* two digits in every field, HH*3600 + MM*60 + SS is s truncated toward
\* zero and MM, SS are at most 59; of a value that is not a number it is
\* "[00:00:00]".
C21_TimestampShape ==
    TimestampDone =>
        IF fn_arg.num
        THEN /\ TimestampShape(fn_ret)
             /\ TimestampField(fn_ret, 5) <= 59
             /\ TimestampField(fn_ret, 8) <= 59
             /\ TimestampField(fn_ret, 2) * 3600 + TimestampField(fn_ret, 5) * 60
                    + TimestampField(fn_ret, 8) = TruncatedSeconds(fn_arg)
        ELSE fn_ret = Str_zero_timestamp

\* For a number from 0 up to, but not including, a hundred hours the result
\* is as stated; and a value that is not a number gives "[00:00:00]".
TimestampShapeBelowHundredHours ==
    (TimestampDone /\ (fn_arg.num => fn_arg.val \in 0..359999)) =>
        IF fn_arg.num
        THEN /\ TimestampShape(fn_ret)
             /\ TimestampField(fn_ret, 5) <= 59
             /\ TimestampField(fn_ret, 8) <= 59
             /\ TimestampField(fn_ret, 2) * 3600 + TimestampField(fn_ret, 5) * 60
                    + TimestampField(fn_ret, 8) = TruncatedSeconds(fn_arg)
        ELSE fn_ret = Str_zero_timestamp

\* From a hundred hours on the hours field has three digits or more, and
\* below zero it carries a minus sign.
TimestampOutOfShape ==
    (TimestampDone /\ fn_arg.num /\ fn_arg.val \notin 0..359999) =>
        ~TimestampShape(fn_ret)

(***************************************************************************)
(* The conversation history in the prompt of chat_with_video (api and      *)
(* backend variants), built on its own.                                    *)
(***************************************************************************)
\* The number of turns the api variant keeps (12 in the source).
KeepRecentTurns == 3

\* The turns of a history: {role, text} objects, the role possibly absent.
Turns ==
    {[role |-> "user", text |-> <<"a">>],
     [role |-> "ai", text |-> <<"b">>],
     [role |-> "ai", text |-> <<"a", " ", "b">>],
     [role |-> "none", text |-> <<"c">>]}

RECURSIVE SeqsUpTo(_, _)
SeqsUpTo(S, n) ==
    IF n = 0 THEN {<<>>}
    ELSE Let1(SeqsUpTo(S, n - 1), LAMBDA shorter :
            shorter \cup {Append(q, x) : q \in {p \in shorter : Len(p) = n - 1}, x \in S})

\* The histories: up to two turns more than the api variant keeps.
Histories == SeqsUpTo(Turns, KeepRecentTurns + 2)

\* The speaker label of a turn.  api: item.get('role', 'user') == 'user';
\* backend: item.get('role') == 'user'.
Speaker(v, role) ==
    IF role = "user" \/ (v = "api" /\ role = "none")
    THEN <<"Y", "o", "u">>
    ELSE <<"S", "a", "n", "c", "h", "a", "r">>

\* f"{speaker}: {item.get('text','')}"
TurnLine(v, item) == Speaker(v, item.role) \o <<":", " ">> \o item.text

\* The loop over every turn of the history.
AllTurns(v, h) == h

\* The turns the loop goes over: conversation_history[-12:] in the api
\* variant, conversation_history in the backend variant.
RecentTurns(v, h) ==
    IF v = "api"
    THEN SubSeq(h, (IF Len(h) > KeepRecentTurns THEN Len(h) - KeepRecentTurns ELSE 0) + 1,
                Len(h))
    ELSE h

\* history_string: "" for an empty history, else the lines of the turns
\* joined by newlines.
HistoryString(v, h) ==
    IF h = <<>> THEN <<>>
    ELSE Let1(RecentTurns(v, h), LAMBDA kept :
            Join(<<"\n">>, [k \in 1..Len(kept) |-> TurnLine(v, kept[k])]))

InitHistory ==
    /\ variant \in {"api", "backend"}
    /\ ChunksIdle
    /\ ExtractIdle
    /\ LlmIdle
    /\ WorkersIdle
    /\ fn = "history_string"
    /\ fn_arg \in Histories
    /\ fn_ret = <<>>
    /\ fpc = "call"

HistoryBuild ==
    /\ fpc = "call"
    /\ fn = "history_string"
    /\ fn_ret' = HistoryString(variant, fn_arg)
    /\ fpc' = "done"
    /\ UNCHANGED <<variant, chunkVars, extractVars, llmVars, workerVars, fn, fn_arg>>

NextHistory == HistoryBuild

SpecHistory == InitHistory /\ [][NextHistory]_vars

HistoryDone == fpc = "done" /\ fn = "history_string"

\* The lines of the history block of the prompt.
HistoryLines == IF fn_ret = <<>> THEN <<>> ELSE Split(fn_ret, "\n")

\* C22: in the api variant the history block of the prompt has one
\* speaker-labelled line for each of the last min(n, 12) turns of a history
\* of n turns, in their order, and nothing of an earlier turn.
C22_RecentTurnsOnly ==
    (HistoryDone /\ variant = "api") =>
        LET n == Len(fn_arg)
            m == Min(n, KeepRecentTurns)
        IN  /\ Len(HistoryLines) = m
            /\ \A k \in 1..m : HistoryLines[k] = TurnLine(variant, fn_arg[n - m + k])

\* A history longer than the api variant keeps has been rendered, and its
\* first turn differs from every turn kept.
C22_Witness ==
    /\ HistoryDone
    /\ variant = "api"
    /\ Len(fn_arg) > KeepRecentTurns
    /\ \A k \in 2..Len(fn_arg) : fn_arg[k] # fn_arg[1]
    /\ fn_ret # <<>>

\* The backend variant renders every turn.
BackendRendersEveryTurn ==
    (HistoryDone /\ variant = "backend") =>
        /\ Len(HistoryLines) = Len(fn_arg)
        /\ \A k \in 1..Len(fn_arg) : HistoryLines[k] = TurnLine(variant, fn_arg[k])

(***************************************************************************)
(* The four endpoints together: a request is an extract-video-info, a      *)
(* chat-with-video, a summarize-video or an extract-topics request.        *)
(***************************************************************************)
InitEndpoints == InitExtract \/ InitLlm

NextEndpoints == NextExtract \/ NextLlm

SpecEndpoints == InitEndpoints /\ [][NextEndpoints]_vars

\* Whether an 'error' value carries the message of the exception caught.
EchoesException(value) == "str(e)" \in Range(value)

\* The 'error' value of a 500 response, of whichever endpoint has answered.
ServerErrors ==
    (IF xpc = "done" /\ status = 500 THEN {info_error} ELSE {})
    \cup (IF reply.status = 500 THEN {reply.value} ELSE {})

\* C23: in the api and backend variants the body of a 500 response of any
\* endpoint does not contain the text of the exception: two failures that
\* differ only in the exception's message give the same body.
C23_NoExceptionText ==
    variant \in {"api", "backend"} => \A value \in ServerErrors : ~EchoesException(value)

\* The 500 responses of chat-with-video, summarize-video and extract-topics
\* of the api and backend variants carry fixed text only.
GenerationErrorsFixed ==
    (variant \in {"api", "backend"} /\ reply.status = 500) => ~EchoesException(reply.value)

\* Every 500 response of the TalkToYT variant that a handler builds carries
\* the exception's text.
TalkToYTEchoesException ==
    variant = "TalkToYT" =>
        \A value \in ServerErrors : value # <<>> => EchoesException(value)

(***************************************************************************)
(* clean_ai_response called on its own, and the topics list built from     *)
(* its result (api and backend variants).                                  *)
(***************************************************************************)
\* The longest text given to clean_ai_response.
MaxCleanLen == 4

CleanChars == {"*", " ", "\n", ",", "a"}

RECURSIVE StringsUpTo(_, _)
StringsUpTo(S, n) ==
    IF n = 0 THEN {<<>>}
    ELSE Let1(StringsUpTo(S, n - 1), LAMBDA shorter :
            shorter \cup {Append(q, x) : q \in {p \in shorter : Len(p) = n - 1}, x \in S})

\* The arguments: None (not a string), or a text of up to MaxCleanLen
\* characters.
CleanInputs == {None} \cup StringsUpTo(CleanChars, MaxCleanLen)

InitClean ==
    /\ variant \in {"api", "backend"}
    /\ ChunksIdle
    /\ ExtractIdle
    /\ LlmIdle
    /\ WorkersIdle
    /\ fn = "clean_ai_response"
    /\ fn_arg \in CleanInputs
    /\ fn_ret = <<>>
    /\ fpc = "call"

\* cleaned = clean_ai_response(resp)
CleanCall ==
    /\ fpc = "call"
    /\ fn = "clean_ai_response"
    /\ fn_ret' = clean_ai_response(fn_arg)
    /\ fpc' = "done"
    /\ UNCHANGED <<variant, chunkVars, extractVars, llmVars, workerVars, fn, fn_arg>>

\* topics_list = [t.strip() for t in cleaned.split(',') if t.strip()]
CleanSplit ==
    /\ fpc = "done"
    /\ fn = "clean_ai_response"
    /\ topics_list' = SplitTopics(fn_ret)
    /\ fpc' = "split"
    /\ UNCHANGED <<variant, chunkVars, extractVars, workerVars, bodyVars, genVars, chatVars,
                   sumVars, topics_raw, tpc, fn, fn_arg, fn_ret>>

NextClean == CleanCall \/ CleanSplit

SpecClean == InitClean /\ [][NextClean]_vars

\* s has no whitespace at either end.
Trimmed(s) == s = <<>> \/ (s[1] \notin Whitespace /\ s[Len(s)] \notin Whitespace)

\* The places of the pieces of s between commas that are not blank, and the
\* j-th of them.
PiecePlaces(s) == {k \in 1..Len(Split(s, ",")) : Strip(Split(s, ",")[k]) # <<>>}

PiecePlace(s, j) ==
    CHOOSE k \in PiecePlaces(s) : Cardinality({i \in PiecePlaces(s) : i <= k}) = j

\* C24: clean_ai_response gives a normal form.  Its result on a string has
\* no "**" and no whitespace at either end, and cleaning it again leaves it
\* as it is; on a value that is not a string the result is "".  The topics
\* list built from it has only trimmed, non-empty elements: the non-blank
\* pieces between its commas, in their order.
C24_CleanNormalForm ==
    (fn = "clean_ai_response" /\ fpc \in {"done", "split"}) =>
        /\ IF fn_arg = None THEN fn_ret = <<>>
           ELSE /\ ~Contains(fn_ret, Str_bold)
                /\ Trimmed(fn_ret)
                /\ clean_ai_response(fn_ret) = fn_ret
        /\ fpc = "split" =>
             /\ \A j \in 1..Len(topics_list) :
                    topics_list[j] # <<>> /\ Trimmed(topics_list[j])
             /\ Len(topics_list) = Cardinality(PiecePlaces(fn_ret))
             /\ \A j \in 1..Len(topics_list) :
                    topics_list[j] = Strip(Split(fn_ret, ",")[PiecePlace(fn_ret, j)])

\* A text with bold markers and whitespace at an end has been cleaned into
\* a different text, and that text split into a topics list.
C24_Witness ==
    /\ fn = "clean_ai_response"
    /\ fpc = "split"
    /\ fn_arg # None
    /\ Contains(fn_arg, Str_bold)
    /\ fn_arg[1] \in Whitespace
    /\ fn_ret # fn_arg
    /\ topics_list # <<>>

====
